---- MODULE Spec2Model ----
(***************************************************************************)
(* Easify: a Telegram bot (src/telegram_bot.py) that keeps one session per *)
(* user in an in-memory session store, logs the user in against a remote   *)
(* backend (src/utils/http_client.py) and forwards later messages to an    *)
(* agent runtime whose tools (under src/tools) are thin HTTP wrappers.     *)
(*                                                                         *)
(* Two specifications:                                                     *)
(*   Spec      - the chat bot: handlers, session store, agent turns.       *)
(*   SpecTools - every tool function applied to an arbitrary tool-context  *)
(*               state, argument list and HTTP outcome.                    *)
(*                                                                         *)
(* Python values: a dict is a function from keys (strings) to values; a    *)
(* str, or an int or bool of a tool call, is a string, and a None among    *)
(* them is NoneStr, the                                                    *)
(* text Python prints for it; a None where a dict or an object is expected *)
(* is None, the empty tuple; a list is List(tuple); a str the code splits   *)
(* is a sequence of one-character strings.  An argument that is None, or   *)
(* omitted with a default of None, is a key absent from the argument       *)
(* record.                                                                 *)
(***************************************************************************)
EXTENDS Integers, Sequences, FiniteSets, TLC

VARIABLES
    sessions,   \* session_service: (app, user id, session id) -> [state, events]
    prompted,   \* users whose chat holds the language keyboard sent by /start
    pc,         \* per user: position of the in-flight all_messages_handler
    turn,       \* per user: the query awaiting the agent, then the turn's
                \* tool_context.state and tool count
    out,        \* what the last handler or tool step did (replies, calls, requests)
    toolCtx,    \* SpecTools: the tool_context.state a tool is applied to
    toolOut,    \* SpecTools: the outcome of the last tool call
    console     \* SpecConsole: position, prompt, turns sent, lines read, output

vars == <<sessions, prompted, pc, turn, out, toolCtx, toolOut, console>>

botVars == <<sessions, prompted, pc, turn, out>>

None == <<>>

NoneStr == "None"

(***************************************************************************)
(* Bounds                                                                  *)
(***************************************************************************)
MaxTokens == 3      \* most tokens in one message text

MaxToolCalls == 1   \* tool calls the agent runtime makes in one turn

MaxGiven == 2       \* optional arguments one tool call supplies

Users == {"u1"}

Whitespace == {" "}

Tokens == { <<"a">>, <<"b", "b">> }

RECURSIVE JoinTokens(_)
JoinTokens(tokens) ==
    IF Len(tokens) = 1 THEN tokens[1]
    ELSE tokens[1] \o <<" ">> \o JoinTokens(Tail(tokens))

\* Message texts as Telegram delivers them: not empty, no leading or
\* trailing whitespace; here one to MaxTokens tokens with a space between.
Texts == { JoinTokens(t) : t \in UNION { [1..n -> Tokens] : n \in 1..MaxTokens } }

(***************************************************************************)
(* Session store (InMemorySessionService as used by the bot)               *)
(***************************************************************************)
APP_NAME == "erp_agent"

session_id(user_id) == <<"telegram", user_id>>

\* Mutant of SessionKey: every user is given the same key.
SessionKey_shared(user_id) == <<APP_NAME, "chat", <<"telegram", "chat">>>>

SessionKey(user_id) == <<APP_NAME, user_id, session_id(user_id)>>

get_session(store, k) == IF k \in DOMAIN store THEN store[k] ELSE None

delete_session(store, k) == [x \in DOMAIN store \ {k} |-> store[x]]

create_session(store, k, state) ==
    [x \in DOMAIN store \cup {k} |->
        IF x = k THEN [state |-> state, events |-> <<>>] ELSE store[x]]

\* Mutant of StateMerge: the delta replaces the state.
StateMerge_replace(state, delta) == delta

\* dict.update / state-delta merge: keys of the delta are added or overwritten.
StateMerge(state, delta) ==
    [x \in DOMAIN state \cup DOMAIN delta |->
        IF x \in DOMAIN delta THEN delta[x] ELSE state[x]]

\* Mutant of append_event: the session is created anew from the delta.
append_event_fresh(store, k, delta) == create_session(store, k, delta)

\* append_event merges the event's state_delta into the stored session of
\* that key and records the event; a key without a stored session is left alone.
append_event(store, k, delta) ==
    IF k \in DOMAIN store
    THEN [store EXCEPT ![k] = [state |-> StateMerge(@.state, delta),
                               events |-> Append(@.events, delta)]]
    ELSE store

\* dict.get(key, default)
StateGet(state, key, default) == IF key \in DOMAIN state THEN state[key] ELSE default

\* state.get(key): None when the key is absent.
StateGetOrNone(state, key) == StateGet(state, key, NoneStr)

\* Python truthiness of a str-or-None value.
Truthy(v) == v # NoneStr /\ v # ""

(***************************************************************************)
(* str.split() of the message text and split('_') of the callback data     *)
(***************************************************************************)
RECURSIVE SplitScan(_, _, _, _)
SplitScan(text, i, cur, acc) ==
    IF i > Len(text)
    THEN IF cur # <<>> THEN Append(acc, cur) ELSE acc
    ELSE IF text[i] \in Whitespace
         THEN SplitScan(text, i + 1, <<>>, IF cur # <<>> THEN Append(acc, cur) ELSE acc)
         ELSE SplitScan(text, i + 1, Append(cur, text[i]), acc)

\* Mutant of split: every non-whitespace character is a token of its own.
split_characters(text) ==
    LET kept == SelectSeq(text, LAMBDA c : c \notin Whitespace)
    IN  [i \in 1..Len(kept) |-> <<kept[i]>>]

\* message.text.split(): the maximal runs of non-whitespace characters.
split(text) == SplitScan(text, 1, <<>>, <<>>)

\* Callback data of the three buttons of the language keyboard, written as
\* the list data.split('_') yields.
CallbackData == { <<"lang", "uz">>, <<"lang", "ru">>, <<"lang", "en">> }

\* The filter of process_language_selection: c.data.startswith('lang_').
IsLangCallback(data) == Len(data) >= 2 /\ data[1] = "lang"

\* callback_query.data.split('_')[1]
LangCodeOf(data) == data[2]

(***************************************************************************)
(* The remote auth API as login() sees it                                  *)
(***************************************************************************)
Accounts == {1, 2}

\* What the backend holds for an account: the login response (userId, token,
\* refreshToken cookie), the user record (merchantId, branchId) and the first
\* branch of the merchant.
AccountData(a) ==
    IF a = 1
    THEN [userId |-> "uid1", token |-> "tok1", refreshToken |-> "ref1",
          merchantId |-> "m1", branchId |-> "br1", firstBranch |-> "fb1"]
    ELSE [userId |-> "uid2", token |-> "tok2", refreshToken |-> "ref2",
          merchantId |-> "m2", branchId |-> "br2", firstBranch |-> "fb2"]

\* One behaviour of the backend during a login: the outcome of POST
\* /auth/login, of GET /auth/users/<id> and of GET /auth/branch/getAll.
\* Fields that a scenario never reaches are fixed, so that every scenario is
\* a different behaviour.
Backends ==
    { b \in [post : {"ok", "http_error", "conn_error", "bad_body"},
             acct : Accounts,
             cookie : BOOLEAN,
             user : {"ok", "http_error", "bad_body"},
             user_branch : BOOLEAN,
             branches : {"ok", "http_error", "empty"}] :
        /\ (b.post # "ok" => b.acct = 1 /\ b.cookie /\ b.user = "ok")
        /\ (b.user # "ok" => b.user_branch)
        /\ (b.user_branch => b.branches = "ok") }

\* len(credentials) != 2: the number of tokens credentials_handler goes on with.
CredentialCount == 2

\* The backend is only asked when the message makes the handler call login().
BackendsFor(text) ==
    IF Len(split(text)) = CredentialCount THEN Backends
    ELSE { b \in Backends : b.post = "conn_error" }

Returned(v) == [raised |-> "", value |-> v]

Raised(e) == [raised |-> e, value |-> None]

get_user(user_id, token, b) ==
    IF b.user = "http_error" THEN Raised("HTTPError")
    ELSE IF b.user = "bad_body" THEN Returned([data |-> None])
    ELSE Returned([merchantId |-> AccountData(b.acct).merchantId,
                   branchId |-> IF b.user_branch
                                THEN AccountData(b.acct).branchId ELSE ""])

get_branch_id_by_merchant_id(merchant_id, token, b) ==
    IF b.branches = "http_error" THEN Raised("HTTPError")
    ELSE IF b.branches = "empty" THEN Raised("IndexError")
    ELSE Returned(AccountData(b.acct).firstBranch)

\* Mutant of login: the token is that of the first account, whoever logs in.
login_first_token(username, password, b) ==
    IF b.post = "conn_error" THEN Raised("ConnectionError")
    ELSE IF b.post = "http_error" THEN Raised("HTTPError")
    ELSE IF b.post = "bad_body" THEN Raised("KeyError")
    ELSE
      LET response_body ==
              [user_id |-> AccountData(b.acct).userId,
               bearer_token |-> AccountData(1).token,
               refresh_token |-> IF b.cookie
                                 THEN AccountData(b.acct).refreshToken ELSE NoneStr]
          user_info == get_user(response_body.user_id, response_body.bearer_token, b)
      IN  IF user_info.raised # "" THEN Raised(user_info.raised)
          ELSE IF "merchantId" \notin DOMAIN user_info.value THEN Raised("KeyError")
          ELSE
            LET merchant_id == user_info.value.merchantId
                branch ==
                    IF Truthy(user_info.value.branchId)
                    THEN Returned(user_info.value.branchId)
                    ELSE get_branch_id_by_merchant_id(
                             merchant_id, response_body.bearer_token, b)
            IN  IF branch.raised # "" THEN Raised(branch.raised)
                ELSE Returned([user_id |-> response_body.user_id,
                               bearer_token |-> response_body.bearer_token,
                               refresh_token |-> response_body.refresh_token,
                               merchant_id |-> merchant_id,
                               branch_id |-> branch.value])

login(username, password, b) ==
    IF b.post = "conn_error" THEN Raised("ConnectionError")
    ELSE IF b.post = "http_error" THEN Raised("HTTPError")
    ELSE IF b.post = "bad_body" THEN Raised("KeyError")
    ELSE
      LET response_body ==
              [user_id |-> AccountData(b.acct).userId,
               bearer_token |-> AccountData(b.acct).token,
               refresh_token |-> IF b.cookie
                                 THEN AccountData(b.acct).refreshToken ELSE NoneStr]
          user_info == get_user(response_body.user_id, response_body.bearer_token, b)
      IN  IF user_info.raised # "" THEN Raised(user_info.raised)
          ELSE IF "merchantId" \notin DOMAIN user_info.value THEN Raised("KeyError")
          ELSE
            LET merchant_id == user_info.value.merchantId
                branch ==
                    IF Truthy(user_info.value.branchId)
                    THEN Returned(user_info.value.branchId)
                    ELSE get_branch_id_by_merchant_id(
                             merchant_id, response_body.bearer_token, b)
            IN  IF branch.raised # "" THEN Raised(branch.raised)
                ELSE Returned([user_id |-> response_body.user_id,
                               bearer_token |-> response_body.bearer_token,
                               refresh_token |-> response_body.refresh_token,
                               merchant_id |-> merchant_id,
                               branch_id |-> branch.value])

(***************************************************************************)
(* Tool layer: what one tool call does                                     *)
(***************************************************************************)
\* Decoded JSON bodies a 2xx response can carry.
BodyToken == [data |-> [token |-> "tokR"]]

BodyItem == [data |-> [id |-> "x1"]]

BodyPlain == [message |-> "done"]

Bodies == {BodyToken, BodyItem, BodyPlain}

\* Outcome of the one HTTP request of a tool call: a 2xx response with a
\* decodable body (and possibly a refreshToken cookie), a 2xx response whose
\* body is not JSON, a non-2xx status, a timeout, a connection failure.
HttpOutcomes ==
    [kind : {"ok"}, body : Bodies, cookie : {NoneStr, "refR"}]
    \cup [kind : {"undecodable", "status_401", "status_500", "timeout", "conn_error"},
          body : {None}, cookie : {NoneStr}]

Is2xx(http) == http.kind \in {"ok", "undecodable"}

\* str(e) of the exception that requests.<method>, raise_for_status or
\* response.json() raises for the outcome.
HttpException(http) ==
    IF http.kind = "undecodable" THEN <<"JSONDecodeError", "">>
    ELSE IF http.kind = "status_401" THEN <<"HTTPError", "401">>
    ELSE IF http.kind = "status_500" THEN <<"HTTPError", "500">>
    ELSE IF http.kind = "timeout" THEN <<"Timeout", "">>
    ELSE <<"ConnectionError", "">>

\* An exception is its type and the detail str(e) shows.
KeyError(key) == <<"KeyError", key>>

\* What a tool call did: the exception that left the function (None if it
\* returned), the value returned, the HTTP request issued (None if none was),
\* the tool_context.state afterwards and the state delta the call recorded.
\* Mutant of ToolReturn: returning clears the bearer_token of the state.
ToolReturn_clears_token(ret, request, state) ==
    [raised |-> None, ret |-> ret, request |-> request,
     state |-> StateMerge(state, [bearer_token |-> NoneStr]),
     delta |-> [bearer_token |-> NoneStr]]

ToolReturn(ret, request, state) ==
    [raised |-> None, ret |-> ret, request |-> request, state |-> state,
     delta |-> None]

ToolRaise(e, state) ==
    [raised |-> e, ret |-> None, request |-> None, state |-> state, delta |-> None]

\* A tool that returns after tool_context.state.update(delta).
ToolUpdate(ret, request, state, delta) ==
    [raised |-> None, ret |-> ret, request |-> request,
     state |-> StateMerge(state, delta), delta |-> delta]

\* The dict every except-branch builds: f"{prefix}: {str(e)}".
ErrorRecord(prefix, e) == [status |-> "error", error_message |-> <<prefix>> \o e]

\* headers = {"Authorization": f"Bearer {token}"}
BearerHeaders(token) == [Authorization |-> <<"Bearer", token>>]

\* ... plus Content-Type and Accept, as the update tools send them.
JsonHeaders(token) ==
    [Authorization |-> <<"Bearer", token>>,
     ContentType |-> "application/json", Accept |-> "application/json"]

Request(method, url, headers, params, json, cookies) ==
    [method |-> method, url |-> url, headers |-> headers,
     params |-> params, json |-> json, cookies |-> cookies]

\* Mutant of ReturnJson: the decoded body comes back wrapped in a status record.
ReturnJson_wrapped(prefix, request, http, state) ==
    IF http.kind = "ok"
    THEN ToolReturn([status |-> "success", data |-> http.body], request, state)
    ELSE ToolReturn(ErrorRecord(prefix, HttpException(http)), request, state)

\* response = requests.<method>(...); response.raise_for_status();
\* return response.json()   -- inside try/except Exception
ReturnJson(prefix, request, http, state) ==
    IF http.kind = "ok"
    THEN ToolReturn(http.body, request, state)
    ELSE ToolReturn(ErrorRecord(prefix, HttpException(http)), request, state)

\* Mutant of MissingKey: the KeyError leaves the function.
MissingKey_raises(prefix, key, state) == ToolRaise(KeyError(key), state)

\* tool_context.state[key] inside the try block: a missing key is a KeyError
\* that the except-branch turns into the error record, before any request.
MissingKey(prefix, key, state) ==
    ToolReturn(ErrorRecord(prefix, KeyError(key)), None, state)

\* A Python list, kept apart from None: [] is List(<<>>).
List(items) == [items |-> items]

\* A dict entry that is only set when the argument is not None.
IfGiven(args, arg, key) == IF arg \in DOMAIN args THEN key :> args[arg] ELSE <<>>

\* Mutant of ArgOr: an argument that is not given stays None.
ArgOr_none(args, arg, default) == IF arg \in DOMAIN args THEN args[arg] ELSE NoneStr

\* An argument with a default value.
ArgOr(args, arg, default) == IF arg \in DOMAIN args THEN args[arg] ELSE default

(***************************************************************************)
(* src/tools/content/flowers.py                                            *)
(***************************************************************************)
create_flower_master(state, args, http) ==
    LET prefix == "Failed to create flower (master)" IN
    IF "merchant_id" \notin DOMAIN state THEN MissingKey(prefix, "merchant_id", state)
    ELSE IF "branch_id" \notin DOMAIN state THEN MissingKey(prefix, "branch_id", state)
    ELSE
      LET token == StateGetOrNone(state, "bearer_token")
          payload ==
              [merchant_id |-> state["merchant_id"], branch_id |-> state["branch_id"],
               name |-> args.name, description |-> args.description,
               quantity |-> args.quantity, unit_cost |-> args.unit_cost,
               price |-> args.price, sold_separately |-> args.sold_separately,
               sold_online |-> args.sold_online, photo_urls |-> args.photo_urls,
               tags |-> List(<<>>), consumables |-> List(<<>>)]
      IN  ReturnJson(prefix,
              Request("POST", <<"content", "flowers", "master">>,
                      BearerHeaders(token), None, payload, None),
              http, state)

get_flowers(state, args, http) ==
    LET prefix == "Failed to get flowers" IN
    IF "merchant_id" \notin DOMAIN state THEN MissingKey(prefix, "merchant_id", state)
    ELSE IF "branch_id" \notin DOMAIN state THEN MissingKey(prefix, "branch_id", state)
    ELSE
      LET lang == StateGetOrNone(state, "lang")
          token == StateGetOrNone(state, "bearer_token")
          sort == ArgOr(args, "sort", "updatedAt-desc")
          params ==
              [merchant_id |-> state["merchant_id"], branch_id |-> state["branch_id"]]
              @@ IfGiven(args, "search", "search")
              @@ IfGiven(args, "flower_type_ids", "type_id")
              @@ IfGiven(args, "flower_ids", "id")
              @@ (IF lang # NoneStr THEN "lang" :> lang ELSE <<>>)
              @@ IfGiven(args, "page", "page")
              @@ IfGiven(args, "limit", "limit")
              @@ (IF sort # NoneStr THEN "sort" :> sort ELSE <<>>)
      IN  ReturnJson(prefix,
              Request("GET", <<"content", "flowers">>,
                      BearerHeaders(token), params, None, None),
              http, state)

update_flower(state, args, http) ==
    LET prefix == "Failed to update flower master"
        token == StateGetOrNone(state, "bearer_token")
        payload ==
            [quantity |-> args.quantity]
            @@ IfGiven(args, "price", "price")
            @@ IfGiven(args, "sold_separately", "sold_separately")
            @@ IfGiven(args, "sold_online", "sold_online")
    IN  ReturnJson(prefix,
            Request("PUT", <<"content", "flowers", args.flower_id>>,
                    JsonHeaders(token), None, payload, None),
            http, state)

update_flower_type(state, args, http) ==
    LET prefix == "Failed to update flower (master)"
        token == StateGetOrNone(state, "bearer_token")
        payload ==
            [name |-> ArgOr(args, "name", None),
             photo_urls |-> ArgOr(args, "photo_urls", None)]
            @@ IfGiven(args, "description", "description")
    IN  ReturnJson(prefix,
            Request("PUT", <<"content", "flower-types", args.flower_type_id>>,
                    JsonHeaders(token), None, payload, None),
            http, state)

\* A delete tool does not read the response body: any 2xx yields the fixed
\* success record.
DeleteResult(prefix, kind, id, request, http, state) ==
    IF Is2xx(http)
    THEN ToolReturn([status |-> "success",
                     message |-> <<kind, id, "deleted successfully.">>],
                    request, state)
    ELSE ToolReturn(ErrorRecord(prefix, HttpException(http)), request, state)

delete_flower_type(state, args, http) ==
    LET token == StateGetOrNone(state, "bearer_token") IN
    DeleteResult("Failed to delete flower_type", "flower_type", args.flower_type_id,
        Request("DELETE", <<"content", "flower-types", args.flower_type_id>>,
                BearerHeaders(token), None, None, None),
        http, state)

(***************************************************************************)
(* src/tools/content/bouquets.py                                           *)
(***************************************************************************)
create_bouquet_master(state, args, http) ==
    LET prefix == "Failed to create bouquet (master)" IN
    IF "merchant_id" \notin DOMAIN state THEN MissingKey(prefix, "merchant_id", state)
    ELSE IF "branch_id" \notin DOMAIN state THEN MissingKey(prefix, "branch_id", state)
    ELSE
      LET token == StateGetOrNone(state, "bearer_token")
          payload ==
              [merchant_id |-> state["merchant_id"], branch_id |-> state["branch_id"],
               name |-> args.name, description |-> args.description,
               price |-> args.price, sold_online |-> args.sold_online,
               photo_urls |-> args.photo_urls, tags |-> args.tags,
               products_spent |-> args.products_spent]
      IN  ReturnJson(prefix,
              Request("POST", <<"content", "bouquets", "master">>,
                      BearerHeaders(token), None, payload, None),
              http, state)

get_bouquets(state, args, http) ==
    LET prefix == "Failed to get bouquets" IN
    IF "merchant_id" \notin DOMAIN state THEN MissingKey(prefix, "merchant_id", state)
    ELSE IF "branch_id" \notin DOMAIN state THEN MissingKey(prefix, "branch_id", state)
    ELSE
      LET token == StateGetOrNone(state, "bearer_token")
          sort == ArgOr(args, "sort", "updatedAt-desc")
          params ==
              [merchant_id |-> state["merchant_id"], branch_id |-> state["branch_id"]]
              @@ IfGiven(args, "search", "search")
              @@ IfGiven(args, "bouquet_type_ids", "type_id")
              @@ IfGiven(args, "bouquet_ids", "id")
              @@ IfGiven(args, "lang", "lang")
              @@ IfGiven(args, "page", "page")
              @@ IfGiven(args, "limit", "limit")
              @@ (IF sort # NoneStr THEN "sort" :> sort ELSE <<>>)
      IN  ReturnJson(prefix,
              Request("GET", <<"content", "bouquets">>,
                      BearerHeaders(token), params, None, None),
              http, state)

update_bouquet(state, args, http) ==
    LET prefix == "Failed to update bouquet"
        token == StateGetOrNone(state, "bearer_token")
        payload ==
            IfGiven(args, "quantity", "quantity")
            @@ IfGiven(args, "price", "price")
            @@ IfGiven(args, "sold_online", "sold_online")
    IN  ReturnJson(prefix,
            Request("PUT", <<"content", "bouquets", args.bouquet_id>>,
                    JsonHeaders(token), None, payload, None),
            http, state)

update_bouquet_type(state, args, http) ==
    LET prefix == "Failed to update bouquet type"
        token == StateGetOrNone(state, "bearer_token")
        payload ==
            IfGiven(args, "name", "name")
            @@ IfGiven(args, "description", "description")
            @@ IfGiven(args, "tags", "tags")
            @@ IfGiven(args, "photo_urls", "photo_urls")
            @@ IfGiven(args, "products_spent", "products_spent")
    IN  ReturnJson(prefix,
            Request("PUT", <<"content", "bouquet-types", args.bouquet_type_id>>,
                    JsonHeaders(token), None, payload, None),
            http, state)

delete_bouquet_type(state, args, http) ==
    LET token == StateGetOrNone(state, "bearer_token") IN
    DeleteResult("Failed to delete bouquet_type", "bouquet_type", args.bouquet_type_id,
        Request("DELETE", <<"content", "bouquet-types", args.bouquet_type_id>>,
                BearerHeaders(token), None, None, None),
        http, state)

(***************************************************************************)
(* src/tools/content/consumables.py                                        *)
(***************************************************************************)
create_consumable_master(state, args, http) ==
    LET prefix == "Failed to create consumable (master)" IN
    IF "merchant_id" \notin DOMAIN state THEN MissingKey(prefix, "merchant_id", state)
    ELSE IF "branch_id" \notin DOMAIN state THEN MissingKey(prefix, "branch_id", state)
    ELSE
      LET token == StateGetOrNone(state, "bearer_token")
          payload ==
              [merchant_id |-> state["merchant_id"], branch_id |-> state["branch_id"],
               name |-> args.name, measurement_type_id |-> args.measurement_type_id,
               quantity |-> args.quantity, unit_cost |-> args.unit_cost]
              @@ IfGiven(args, "photo_urls", "photo_urls")
      IN  ReturnJson(prefix,
              Request("POST", <<"content", "consumables", "master">>,
                      BearerHeaders(token), None, payload, None),
              http, state)

get_consumables(state, args, http) ==
    LET prefix == "Failed to get consumables" IN
    IF "merchant_id" \notin DOMAIN state THEN MissingKey(prefix, "merchant_id", state)
    ELSE IF "branch_id" \notin DOMAIN state THEN MissingKey(prefix, "branch_id", state)
    ELSE
      LET lang == StateGetOrNone(state, "lang")
          token == StateGetOrNone(state, "bearer_token")
          sort == ArgOr(args, "sort", "updatedAt-desc")
          params ==
              [merchant_id |-> state["merchant_id"], branch_id |-> state["branch_id"]]
              @@ IfGiven(args, "search", "search")
              @@ IfGiven(args, "consumable_type_ids", "type_id")
              @@ IfGiven(args, "consumable_ids", "id")
              @@ (IF lang # NoneStr THEN "lang" :> lang ELSE <<>>)
              @@ IfGiven(args, "page", "page")
              @@ IfGiven(args, "limit", "limit")
              @@ (IF sort # NoneStr THEN "sort" :> sort ELSE <<>>)
      IN  ReturnJson(prefix,
              Request("GET", <<"content", "consumables">>,
                      BearerHeaders(token), params, None, None),
              http, state)

update_consumable(state, args, http) ==
    LET prefix == "Failed to update consumable"
        token == StateGetOrNone(state, "bearer_token")
        payload == [quantity |-> args.quantity]
    IN  ReturnJson(prefix,
            Request("PUT", <<"content", "consumables", args.consumable_id>>,
                    JsonHeaders(token), None, payload, None),
            http, state)

update_consumable_type(state, args, http) ==
    LET prefix == "Failed to update consumable type"
        token == StateGetOrNone(state, "bearer_token")
        payload ==
            IfGiven(args, "name", "name")
            @@ IfGiven(args, "measurement_type_id", "measurement_type_id")
            @@ IfGiven(args, "photo_urls", "photo_urls")
    IN  ReturnJson(prefix,
            Request("PUT", <<"content", "consumable-types", args.consumable_type_id>>,
                    JsonHeaders(token), None, payload, None),
            http, state)

delete_consumable_type(state, args, http) ==
    LET token == StateGetOrNone(state, "bearer_token") IN
    DeleteResult("Failed to delete consumable_type", "consumable_type",
        args.consumable_type_id,
        Request("DELETE", <<"content", "consumable-types", args.consumable_type_id>>,
                BearerHeaders(token), None, None, None),
        http, state)

(***************************************************************************)
(* src/tools/content/measurement_types.py, feed.py, supply.py              *)
(***************************************************************************)
get_all_measurement_types(state, args, http) ==
    LET prefix == "Failed to get measurement types"
        lang == StateGetOrNone(state, "lang")
        token == StateGetOrNone(state, "bearer_token")
        params == IF lang # NoneStr THEN "lang" :> lang ELSE <<>>
    IN  ReturnJson(prefix,
            Request("GET", <<"content", "measurement-types">>,
                    BearerHeaders(token), params, None, None),
            http, state)

\* A dict entry that is only set when the str argument is truthy.
IfTruthy(args, arg, key) ==
    IF arg \in DOMAIN args /\ args[arg] # "" THEN key :> args[arg] ELSE <<>>

\* str(has_discount).lower()
LowerBool(v) == IF v = "True" THEN "true" ELSE "false"

\* ",".join(tags)
CommaJoin(list) == [joined |-> list.items]

search_feed(state, args, http) ==
    LET prefix == "Failed to search feed"
        page == ArgOr(args, "page", "1")
        limit == ArgOr(args, "limit", "20")
        merchant_id == StateGetOrNone(state, "merchant_id")
        params ==
            [page |-> page, limit |-> limit,
             lang |-> StateGet(state, "user_language", "ru")]
            @@ (IF Truthy(merchant_id) THEN "merchant_id" :> merchant_id ELSE <<>>)
            @@ IfTruthy(args, "product_type", "product_type")
            @@ IfTruthy(args, "search", "search")
            @@ IfGiven(args, "min_price", "min_price")
            @@ IfGiven(args, "max_price", "max_price")
            @@ IfTruthy(args, "sort", "sort")
            @@ (IF "has_discount" \in DOMAIN args
                THEN "has_discount" :> LowerBool(args.has_discount) ELSE <<>>)
            @@ (IF "tags" \in DOMAIN args /\ Len(args.tags.items) > 0
                THEN "tags" :> CommaJoin(args.tags) ELSE <<>>)
    IN  ReturnJson(prefix,
            Request("GET", <<"content", "feed">>, None, params, None, None),
            http, state)

create_supply(state, args, http) ==
    LET prefix == "Failed to create supply" IN
    IF "branch_id" \notin DOMAIN state THEN MissingKey(prefix, "branch_id", state)
    ELSE
      LET token == StateGetOrNone(state, "bearer_token")
          payload ==
              [branchId |-> state["branch_id"], supplyDate |-> "utcnow",
               quantity |-> args.quantity, unitCost |-> args.unit_cost,
               productType |-> args.product_type, productId |-> args.product_id]
      IN  ReturnJson(prefix,
              Request("POST", <<"content", "supplies">>,
                      BearerHeaders(token), None, payload, None),
              http, state)

(***************************************************************************)
(* src/tools/transaction/orders.py                                         *)
(***************************************************************************)
create_order(state, args, http) ==
    LET prefix == "Failed to create order" IN
    IF "user_id" \notin DOMAIN state THEN MissingKey(prefix, "user_id", state)
    ELSE IF "merchant_id" \notin DOMAIN state THEN MissingKey(prefix, "merchant_id", state)
    ELSE IF "branch_id" \notin DOMAIN state THEN MissingKey(prefix, "branch_id", state)
    ELSE IF "bearer_token" \notin DOMAIN state
         THEN MissingKey(prefix, "bearer_token", state)
    ELSE
      LET payload ==
              [userId |-> state["user_id"], merchantId |-> state["merchant_id"],
               branchId |-> state["branch_id"], paymentType |-> args.payment_type,
               products |-> args.products,
               giftCardNote |-> ArgOr(args, "gift_card_note", NoneStr)]
      IN  ReturnJson(prefix,
              Request("POST", <<"transaction", "orders">>,
                      BearerHeaders(state["bearer_token"]), None, payload, None),
              http, state)

\* The headers are built before the try block: a state without bearer_token
\* makes tool_context.state['bearer_token'] raise out of the function.
get_payment_types(state, args, http) ==
    IF "bearer_token" \notin DOMAIN state
    THEN ToolRaise(KeyError("bearer_token"), state)
    ELSE ReturnJson("Failed to get payment types",
             Request("GET", <<"transaction", "payment-types">>,
                     BearerHeaders(state["bearer_token"]), None, None, None),
             http, state)

OrderStatuses == {"PENDING", "FAILED", "CANCELED", "REFUND", "SUCCESSFUL"}

\* Mutant of Upper: the status is taken as it is written.
Upper_as_written(status) == status

\* str.upper() on the status texts the model passes.
Upper(status) ==
    IF status = "pending" THEN "PENDING"
    ELSE IF status = "Refund" THEN "REFUND"
    ELSE IF status = "shipped" THEN "SHIPPED"
    ELSE status

get_orders_by_status(state, args, http) ==
    LET prefix == "Failed to get orders"
        status == Upper(args.status)
    IN
    IF status \notin OrderStatuses
    THEN ToolReturn(ErrorRecord(prefix, <<"Exception", "Invalid status", status>>),
                    None, state)
    ELSE IF "bearer_token" \notin DOMAIN state
         THEN MissingKey(prefix, "bearer_token", state)
    ELSE
      LET params ==
              [page |-> ArgOr(args, "page", "1"), limit |-> ArgOr(args, "limit", "20"),
               transactionStatus |-> status]
      IN  ReturnJson(prefix,
              Request("GET", <<"transaction", "orders">>,
                      BearerHeaders(state["bearer_token"]), params, None, None),
              http, state)

\* str.strip() on the order ids the model passes.
Strip(order_id) == IF order_id = " o1 " THEN "o1" ELSE order_id

confirm_order(state, args, http) ==
    LET params == [orderId |-> Strip(args.order_id)] IN
    IF "bearer_token" \notin DOMAIN state
    THEN ToolRaise(KeyError("bearer_token"), state)
    ELSE ReturnJson("Failed to confirm order",
             Request("PATCH", <<"transaction", "orders", "confirm">>,
                     BearerHeaders(state["bearer_token"]), params, None, None),
             http, state)

cancel_order(state, args, http) ==
    IF "bearer_token" \notin DOMAIN state
    THEN ToolRaise(KeyError("bearer_token"), state)
    ELSE ReturnJson("Failed to cancel order",
             Request("PATCH", <<"transaction", "orders", "cancel", args.order_id>>,
                     BearerHeaders(state["bearer_token"]), None, None, None),
             http, state)

(***************************************************************************)
(* src/tools/auth/auth.py                                                  *)
(***************************************************************************)
\* The record refresh_token returns from its except-branch.
RefreshErrorRecord(e) ==
    [status |-> "error", message |-> <<"error while refreshing the token">> \o e]

\* Mutant of refresh_token: the cookie is stored before the body is read.
refresh_token_cookie_first(state, args, http) ==
    LET request == Request("POST", <<"auth", "refresh">>, None, None, None,
                           [refreshToken |-> args.token])
    IN
    IF http.kind # "ok"
    THEN ToolReturn(RefreshErrorRecord(HttpException(http)), request, state)
    ELSE IF "data" \notin DOMAIN http.body \/ "token" \notin DOMAIN http.body.data
         THEN ToolUpdate(RefreshErrorRecord(KeyError("token")), request, state,
                         [refresh_token |-> http.cookie])
    ELSE ToolUpdate(None, request, state,
             [refresh_token |-> http.cookie, bearer_token |-> http.body.data.token])

refresh_token(state, args, http) ==
    LET request == Request("POST", <<"auth", "refresh">>, None, None, None,
                           [refreshToken |-> args.token])
    IN
    IF http.kind # "ok"
    THEN ToolReturn(RefreshErrorRecord(HttpException(http)), request, state)
    ELSE IF "data" \notin DOMAIN http.body
         THEN ToolReturn(RefreshErrorRecord(KeyError("data")), request, state)
    ELSE IF "token" \notin DOMAIN http.body.data
         THEN ToolReturn(RefreshErrorRecord(KeyError("token")), request, state)
    ELSE ToolUpdate(None, request, state,
             [refresh_token |-> http.cookie, bearer_token |-> http.body.data.token])

(***************************************************************************)
(* Tool calls the agent runtime can make: the tools of src/agents.py with  *)
(* their argument lists                                                    *)
(***************************************************************************)
Given(arg, values) == { arg :> v : v \in values }

Maybe(arg, values) == {<<>>} \cup Given(arg, values)

Cross(S, T) == { s @@ t : s \in S, t \in T }

\* Required arguments with at most MaxGiven of the optional ones.
ArgLists(required, optional) ==
    Cross(required, { o \in optional : Cardinality(DOMAIN o) <= MaxGiven })

NoArgs == {<<>>}

NameDict == [uz |-> "atirgul", ru |-> "roza", en |-> "rose"]

TextDict == [uz |-> "qizil", ru |-> "krasnaya", en |-> "red"]

Photos == List(<<"ph1">>)

Ids == List(<<"id1", "id2">>)

Paging == Cross(Maybe("page", {"2"}), Maybe("limit", {"5"}))

ListSort == Maybe("sort", {NoneStr, "price-asc"})

ToolNames ==
    { "create_flower_master", "get_flowers", "update_flower", "update_flower_type",
      "delete_flower_type",
      "create_bouquet_master", "get_bouquets", "update_bouquet", "update_bouquet_type",
      "delete_bouquet_type",
      "create_consumable_master", "get_consumables", "update_consumable",
      "update_consumable_type", "delete_consumable_type",
      "get_all_measurement_types", "search_feed", "create_supply",
      "create_order", "get_payment_types", "get_orders_by_status", "confirm_order",
      "cancel_order", "refresh_token" }

ToolArgs(tool) ==
    CASE tool = "create_flower_master" ->
           { [name |-> NameDict, description |-> TextDict, quantity |-> "10",
              unit_cost |-> "3", price |-> "5", sold_separately |-> "False",
              sold_online |-> "True", photo_urls |-> Photos] }
      [] tool = "get_flowers" ->
           ArgLists(NoArgs,
               Cross(Maybe("search", {"rose"}),
               Cross(Maybe("flower_type_ids", {Ids}),
               Cross(Maybe("flower_ids", {Ids}), Cross(Paging, ListSort)))))
      [] tool = "update_flower" ->
           ArgLists({ [flower_id |-> "id1", quantity |-> "10"] },
               Cross(Maybe("price", {"5"}),
               Cross(Maybe("sold_separately", {"True"}), Maybe("sold_online", {"False"}))))
      [] tool = "update_flower_type" ->
           ArgLists(Given("flower_type_id", {"id1"}),
               Cross(Maybe("name", {NameDict}),
               Cross(Maybe("description", {TextDict}), Maybe("photo_urls", {Photos}))))
      [] tool = "delete_flower_type" -> Given("flower_type_id", {"id1"})
      [] tool = "create_bouquet_master" ->
           { [name |-> NameDict, description |-> TextDict, price |-> "5",
              sold_online |-> "True", photo_urls |-> Photos,
              tags |-> List(<<TextDict>>),
              products_spent |-> List(<<[type_id |-> "id1", quantity |-> "2",
                                         type |-> "FLOWER"]>>)] }
      [] tool = "get_bouquets" ->
           ArgLists(NoArgs,
               Cross(Maybe("search", {"rose"}),
               Cross(Maybe("bouquet_type_ids", {Ids}),
               Cross(Maybe("bouquet_ids", {Ids}),
               Cross(Maybe("lang", {"uz"}), Cross(Paging, ListSort))))))
      [] tool = "update_bouquet" ->
           ArgLists(Given("bouquet_id", {"id1"}),
               Cross(Maybe("quantity", {"10"}),
               Cross(Maybe("price", {"5"}), Maybe("sold_online", {"False"}))))
      [] tool = "update_bouquet_type" ->
           ArgLists(Given("bouquet_type_id", {"id1"}),
               Cross(Maybe("name", {NameDict}),
               Cross(Maybe("description", {TextDict}),
               Cross(Maybe("tags", {List(<<TextDict>>)}),
               Cross(Maybe("photo_urls", {Photos}),
                     Maybe("products_spent",
                           {List(<<[type_id |-> "id1", quantity |-> "2",
                                    type |-> "FLOWER"]>>)}))))))
      [] tool = "delete_bouquet_type" -> Given("bouquet_type_id", {"id1"})
      [] tool = "create_consumable_master" ->
           ArgLists({ [name |-> NameDict, measurement_type_id |-> "mt1",
                       quantity |-> "1.5", unit_cost |-> "0.5"] },
               Maybe("photo_urls", {Photos}))
      [] tool = "get_consumables" ->
           ArgLists(NoArgs,
               Cross(Maybe("search", {"rose"}),
               Cross(Maybe("consumable_type_ids", {Ids}),
               Cross(Maybe("consumable_ids", {Ids}), Cross(Paging, ListSort)))))
      [] tool = "update_consumable" -> { [consumable_id |-> "id1", quantity |-> "1.5"] }
      [] tool = "update_consumable_type" ->
           ArgLists(Given("consumable_type_id", {"id1"}),
               Cross(Maybe("name", {NameDict}),
               Cross(Maybe("measurement_type_id", {"mt1"}),
                     Maybe("photo_urls", {Photos}))))
      [] tool = "delete_consumable_type" -> Given("consumable_type_id", {"id1"})
      [] tool = "get_all_measurement_types" -> NoArgs
      [] tool = "search_feed" ->
           ArgLists(NoArgs,
               Cross(Paging,
               Cross(Maybe("product_type", {"BOUQUET"}),
               Cross(Maybe("search", {"", "rose"}),
               Cross(Maybe("min_price", {"10"}),
               Cross(Maybe("max_price", {"90"}),
               Cross(Maybe("sort", {"price-ascending"}),
               Cross(Maybe("has_discount", {"True", "False"}),
                     Maybe("tags", {List(<<>>), List(<<"Mono", "Red">>)})))))))))
      [] tool = "create_supply" ->
           { [quantity |-> "10", unit_cost |-> "3", product_type |-> "FLOWER",
              product_id |-> "id1"] }
      [] tool = "create_order" ->
           ArgLists({ [products |-> List(<<[productId |-> "id1", typeId |-> "id2",
                                           quantity |-> "1.0",
                                           productType |-> "BOUQUET",
                                           price |-> "446000.00"]>>),
                       payment_type |-> "CLICK"] },
               Maybe("gift_card_note", {"Happy Birthday!"}))
      [] tool = "get_payment_types" -> NoArgs
      [] tool = "get_orders_by_status" ->
           ArgLists(Given("status", {"PENDING", "pending", "Refund", "shipped"}), Paging)
      [] tool = "confirm_order" -> Given("order_id", {"o1", " o1 "})
      [] tool = "cancel_order" -> Given("order_id", {"o1"})
      [] tool = "refresh_token" -> Given("token", {"ref1", NoneStr})

\* The call with none of the optional arguments, one per value of the
\* required ones.
RequiredArgs(tool) ==
    LET all == ToolArgs(tool) IN
    { a \in all : \A b \in all : ~(DOMAIN b \subseteq DOMAIN a /\ DOMAIN b # DOMAIN a) }

\* The two tables, computed once.
AllArgsOf == [tool \in ToolNames |-> ToolArgs(tool)]

RequiredArgsOf == [tool \in ToolNames |-> RequiredArgs(tool)]

RunTool(tool, state, args, http) ==
    CASE tool = "create_flower_master" -> create_flower_master(state, args, http)
      [] tool = "get_flowers" -> get_flowers(state, args, http)
      [] tool = "update_flower" -> update_flower(state, args, http)
      [] tool = "update_flower_type" -> update_flower_type(state, args, http)
      [] tool = "delete_flower_type" -> delete_flower_type(state, args, http)
      [] tool = "create_bouquet_master" -> create_bouquet_master(state, args, http)
      [] tool = "get_bouquets" -> get_bouquets(state, args, http)
      [] tool = "update_bouquet" -> update_bouquet(state, args, http)
      [] tool = "update_bouquet_type" -> update_bouquet_type(state, args, http)
      [] tool = "delete_bouquet_type" -> delete_bouquet_type(state, args, http)
      [] tool = "create_consumable_master" -> create_consumable_master(state, args, http)
      [] tool = "get_consumables" -> get_consumables(state, args, http)
      [] tool = "update_consumable" -> update_consumable(state, args, http)
      [] tool = "update_consumable_type" -> update_consumable_type(state, args, http)
      [] tool = "delete_consumable_type" -> delete_consumable_type(state, args, http)
      [] tool = "get_all_measurement_types" -> get_all_measurement_types(state, args, http)
      [] tool = "search_feed" -> search_feed(state, args, http)
      [] tool = "create_supply" -> create_supply(state, args, http)
      [] tool = "create_order" -> create_order(state, args, http)
      [] tool = "get_payment_types" -> get_payment_types(state, args, http)
      [] tool = "get_orders_by_status" -> get_orders_by_status(state, args, http)
      [] tool = "confirm_order" -> confirm_order(state, args, http)
      [] tool = "cancel_order" -> cancel_order(state, args, http)
      [] tool = "refresh_token" -> refresh_token(state, args, http)

\* Only refresh_token reads the cookies of the response.
HttpOutcomesOf(tool) ==
    IF tool = "refresh_token" THEN HttpOutcomes
    ELSE { h \in HttpOutcomes : h.cookie = NoneStr }

(***************************************************************************)
(* src/telegram_bot.py: the handlers                                       *)
(***************************************************************************)
Reply(kind, lang, detail) == [kind |-> kind, lang |-> lang, detail |-> detail]

\* Mutant of ReplyLang: every answer is the English text.
ReplyLang_english(lang_code) == "en"

\* Every if/elif/else over lang_code answers in uz, ru or en and falls back
\* to the English text.
ReplyLang(lang_code) == IF lang_code \in {"uz", "ru"} THEN lang_code ELSE "en"

\* What one step did: the handler, its user, the text or callback data it
\* received, the messages it sent, the login() calls (with their outcome) and
\* call_agent_async() calls it made, the tool call it ran.
Did(handler, user, input, replies, login_calls, agent_calls, tool) ==
    [handler |-> handler, user |-> user, input |-> input, replies |-> replies,
     login_calls |-> login_calls, agent_calls |-> agent_calls, tool |-> tool]

HasLanguage(session) ==
    /\ session # None
    /\ "user_language" \in DOMAIN session.state
    /\ Truthy(session.state["user_language"])

\* Mutant of command_start_handler: /start forgets the session it finds.
command_start_handler_forgets(u) ==
    LET existing_session == get_session(sessions, SessionKey(u)) IN
    /\ IF HasLanguage(existing_session)
       THEN /\ out' = Did("command_start_handler", u, None,
                          <<Reply("greeting",
                                  ReplyLang(existing_session.state["user_language"]), "")>>,
                          <<>>, <<>>, None)
            /\ sessions' = delete_session(sessions, SessionKey(u))
            /\ UNCHANGED prompted
       ELSE /\ out' = Did("command_start_handler", u, None,
                          <<Reply("choose_language", "en", "")>>, <<>>, <<>>, None)
            /\ prompted' = prompted \cup {u}
            /\ UNCHANGED sessions
    /\ UNCHANGED <<pc, turn, toolCtx, toolOut, console>>

command_start_handler(u) ==
    LET existing_session == get_session(sessions, SessionKey(u)) IN
    /\ IF HasLanguage(existing_session)
       THEN /\ out' = Did("command_start_handler", u, None,
                          <<Reply("greeting",
                                  ReplyLang(existing_session.state["user_language"]), "")>>,
                          <<>>, <<>>, None)
            /\ UNCHANGED prompted
       ELSE /\ out' = Did("command_start_handler", u, None,
                          <<Reply("choose_language", "en", "")>>, <<>>, <<>>, None)
            /\ prompted' = prompted \cup {u}
    /\ UNCHANGED <<sessions, pc, turn, toolCtx, toolOut, console>>

\* Mutant of initial_state: the awaiting-credentials flag is not raised.
initial_state_not_awaiting(lang_code) ==
    [user_language |-> lang_code, awaiting_credentials |-> FALSE]

\* Mutant of initial_state: the chosen code is dropped for the default.
initial_state_default_language(lang_code) ==
    [user_language |-> "en", awaiting_credentials |-> TRUE]

initial_state(lang_code) ==
    [user_language |-> lang_code, awaiting_credentials |-> TRUE]

\* Mutant of process_language_selection_on: the handler is suspended after
\* delete_session, so the store is seen without the session.
process_language_selection_on_yields(u, data) ==
    /\ u \in prompted
    /\ IsLangCallback(data)
    /\ LET lang_code == LangCodeOf(data)
           k == SessionKey(u)
           session_data == get_session(sessions, k)
       IN  /\ sessions' = IF session_data # None THEN delete_session(sessions, k)
                          ELSE create_session(sessions, k, initial_state(lang_code))
           /\ out' = Did("process_language_selection", u, data,
                         <<Reply("ask_credentials", ReplyLang(lang_code), "")>>,
                         <<>>, <<>>, None)
    /\ UNCHANGED <<prompted, pc, turn, toolCtx, toolOut, console>>

\* process_language_selection run on a callback query with the given data,
\* sent from a chat that holds the keyboard.
process_language_selection_on(u, data) ==
    /\ u \in prompted
    /\ IsLangCallback(data)
    /\ LET lang_code == LangCodeOf(data)
           k == SessionKey(u)
           session_data == get_session(sessions, k)
           kept == IF session_data # None THEN delete_session(sessions, k)
                   ELSE sessions
       IN  /\ sessions' = create_session(kept, k, initial_state(lang_code))
           /\ out' = Did("process_language_selection", u, data,
                         <<Reply("ask_credentials", ReplyLang(lang_code), "")>>,
                         <<>>, <<>>, None)
    /\ UNCHANGED <<prompted, pc, turn, toolCtx, toolOut, console>>

\* The callback comes from a button of the keyboard that /start sent.
process_language_selection(u) ==
    \E data \in CallbackData : process_language_selection_on(u, data)

\* Mutant of state_update: merchant and branch identifiers change places.
state_update_swapped(lang_code, login_response) ==
    [user_language |-> lang_code,
     awaiting_credentials |-> FALSE,
     user_id |-> login_response.user_id,
     merchant_id |-> login_response.branch_id,
     branch_id |-> login_response.merchant_id,
     bearer_token |-> login_response.bearer_token,
     refresh_token |-> login_response.refresh_token]

\* Mutant of state_update: the language is also stored under "lang".
state_update_lang(lang_code, login_response) ==
    [user_language |-> lang_code,
     lang |-> lang_code,
     awaiting_credentials |-> FALSE,
     user_id |-> login_response.user_id,
     merchant_id |-> login_response.merchant_id,
     branch_id |-> login_response.branch_id,
     bearer_token |-> login_response.bearer_token,
     refresh_token |-> login_response.refresh_token]

state_update(lang_code, login_response) ==
    [user_language |-> lang_code,
     awaiting_credentials |-> FALSE,
     user_id |-> login_response.user_id,
     merchant_id |-> login_response.merchant_id,
     branch_id |-> login_response.branch_id,
     bearer_token |-> login_response.bearer_token,
     refresh_token |-> login_response.refresh_token]

\* credentials_handler: the store afterwards, the replies and the login calls.
credentials_handler(store, u, text, b) ==
    LET k == SessionKey(u)
        credentials == split(text)
        session == get_session(store, k)
        lang_code == StateGet(session.state, "user_language", "en")
    IN
    IF Len(credentials) # CredentialCount
    THEN [store |-> store, login_calls |-> <<>>,
          replies |-> <<Reply("credentials_format", ReplyLang(lang_code), "")>>]
    ELSE
      LET input_login == credentials[1]
          password == credentials[2]
          login_response == login(input_login, password, b)
          calls == << [username |-> input_login, password |-> password,
                       response |-> login_response] >>
      IN  IF login_response.raised = ""
          THEN [store |-> append_event(store, k,
                              state_update(lang_code, login_response.value)),
                login_calls |-> calls,
                replies |-> <<Reply("login_success", ReplyLang(lang_code), "")>>]
          ELSE IF login_response.raised = "HTTPError"
          THEN [store |-> store, login_calls |-> calls,
                replies |-> <<Reply("login_invalid", ReplyLang(lang_code), "")>>]
          ELSE [store |-> store, login_calls |-> calls,
                replies |-> <<Reply("login_error", ReplyLang(lang_code),
                                    login_response.raised)>>]

\* Mutant of RestartPrompt: the handler answers with the login prompt.
RestartPrompt_login == Reply("login_first", "en", "")

\* "Please select your language first by typing /start."
RestartPrompt == Reply("select_language_first", "en", "")

\* Mutant of Gate: the bearer_token is looked for before awaiting_credentials.
Gate_token_first(state) ==
    IF "bearer_token" \notin DOMAIN state THEN "login_first"
    ELSE IF StateGet(state, "awaiting_credentials", FALSE) THEN "credentials"
    ELSE "forward"

\* The two checks that stand between a message and the agent runtime:
\* "credentials" runs credentials_handler, "login_first" rejects, "forward"
\* lets the message through.
Gate(state) ==
    IF StateGet(state, "awaiting_credentials", FALSE) THEN "credentials"
    ELSE IF "bearer_token" \notin DOMAIN state THEN "login_first"
    ELSE "forward"

\* all_messages_handler up to its first wait after the checks: a rejection,
\* the whole credentials_handler, or the loading message.
all_messages_handler(u) ==
    \E text \in Texts :
      LET session_data == get_session(sessions, SessionKey(u)) IN
      /\ pc[u] = "idle"
      /\ IF ~HasLanguage(session_data)
         THEN /\ out' = Did("all_messages_handler", u, text,
                            <<RestartPrompt>>,
                            <<>>, <<>>, None)
              /\ UNCHANGED <<sessions, pc, turn>>
         ELSE IF Gate(session_data.state) = "credentials"
         THEN \E b \in BackendsFor(text) :
                LET r == credentials_handler(sessions, u, text, b) IN
                /\ sessions' = r.store
                /\ out' = Did("all_messages_handler", u, text, r.replies, r.login_calls,
                              <<>>, None)
                /\ UNCHANGED <<pc, turn>>
         ELSE IF Gate(session_data.state) = "login_first"
         THEN /\ out' = Did("all_messages_handler", u, text,
                            <<Reply("login_first", "en", "")>>, <<>>, <<>>, None)
              /\ UNCHANGED <<sessions, pc, turn>>
         ELSE /\ out' = Did("all_messages_handler", u, text,
                            <<Reply("loading", "en", "")>>, <<>>, <<>>, None)
              /\ pc' = [pc EXCEPT ![u] = "loading"]
              /\ turn' = [turn EXCEPT ![u] = [query |-> text]]
              /\ UNCHANGED sessions
      /\ UNCHANGED <<prompted, toolCtx, toolOut, console>>

\* A tool's state delta reaches the stored session of that key, if there is one.
persist_delta(store, k, delta) ==
    IF k \in DOMAIN store
    THEN [store EXCEPT ![k] = [state |-> StateMerge(@.state, delta),
                               events |-> @.events]]
    ELSE store

\* What the bot's log keeps of a tool call.
ToolSummary(tool, r) ==
    [name |-> tool, raised |-> r.raised # None, sent |-> r.request # None,
     headers |-> IF r.request # None THEN r.request.headers ELSE None]

\* all_messages_handler resumes after the loading message was sent and calls
\* call_agent_async(user_query, runner, user_id, session_id); the runner loads
\* the session of that key as it is now.
call_agent_async(u) ==
    LET session == get_session(sessions, SessionKey(u)) IN
    /\ pc[u] = "loading"
    /\ session # None
    /\ pc' = [pc EXCEPT ![u] = "agent"]
    /\ turn' = [turn EXCEPT ![u] = [state |-> session.state, tools |-> 0]]
    /\ out' = Did("call_agent_async", u, None, <<>>, <<>>,
                  << [user_id |-> u, session_id |-> session_id(u),
                      query |-> turn[u].query] >>, None)
    /\ UNCHANGED <<sessions, prompted, toolCtx, toolOut, console>>

\* The agent runtime calls one tool with the turn's tool_context.state.  An
\* exception that leaves the tool either ends the turn (the handler dies
\* without editing the loading message) or is absorbed by the runtime.
tool_call(u) ==
    /\ pc[u] = "agent"
    /\ turn[u].tools < MaxToolCalls
    /\ \E tool \in ToolNames :
         \E args \in RequiredArgsOf[tool], http \in HttpOutcomesOf(tool),
            absorbed \in BOOLEAN :
           LET r == RunTool(tool, turn[u].state, args, http) IN
           /\ (r.raised = None => absorbed)
           /\ sessions' = persist_delta(sessions, SessionKey(u), r.delta)
           /\ IF absorbed
              THEN /\ turn' = [turn EXCEPT ![u] = [state |-> r.state,
                                                   tools |-> @.tools + 1]]
                   /\ UNCHANGED pc
              ELSE /\ turn' = [turn EXCEPT ![u] = None]
                   /\ pc' = [pc EXCEPT ![u] = "idle"]
           /\ out' = Did("tool_call", u, None, <<>>, <<>>, <<>>, ToolSummary(tool, r))
    /\ UNCHANGED <<prompted, toolCtx, toolOut, console>>

\* call_agent_async returns the final text and the handler edits the loading
\* message with it.
agent_reply(u) ==
    /\ pc[u] = "agent"
    /\ pc' = [pc EXCEPT ![u] = "idle"]
    /\ turn' = [turn EXCEPT ![u] = None]
    /\ out' = Did("edit_message_text", u, None, <<Reply("agent_reply", "en", "")>>,
                  <<>>, <<>>, None)
    /\ UNCHANGED <<sessions, prompted, toolCtx, toolOut, console>>

(***************************************************************************)
(* Spec: the chat bot                                                      *)
(***************************************************************************)
Init ==
    /\ sessions = <<>>
    /\ prompted = {}
    /\ pc = [u \in Users |-> "idle"]
    /\ turn = [u \in Users |-> None]
    /\ out = Did("none", "", None, <<>>, <<>>, <<>>, None)
    /\ toolCtx = None
    /\ toolOut = None
    /\ console = None

Next ==
    \E u \in Users :
        \/ command_start_handler(u)
        \/ process_language_selection(u)
        \/ all_messages_handler(u)
        \/ call_agent_async(u)
        \/ tool_call(u)
        \/ agent_reply(u)

Spec == Init /\ [][Next]_vars

\* The event loop runs every handler that is waiting to resume: the loading
\* message is answered, the agent call is made, and its reply is shown unless
\* the call ended with an exception.
Fairness ==
    \A u \in Users :
        /\ WF_vars(call_agent_async(u))
        /\ WF_vars(agent_reply(u))

SpecLive == Spec /\ Fairness

(***************************************************************************)
(* SpecTools: every tool function on every tool-context state              *)
(***************************************************************************)
\* The session state a login leaves behind.
LoggedInState ==
    state_update("ru", [user_id |-> "uid1", merchant_id |-> "m1", branch_id |-> "br1",
                        bearer_token |-> "tok1", refresh_token |-> "ref1"])

\* initial_state of src/console.py: no user_id, no refresh_token.
ConsoleState ==
    [user_language |-> "en", merchant_id |-> "m1", branch_id |-> "br1",
     bearer_token |-> "tok1"]

Without(state, keys) == [x \in DOMAIN state \ keys |-> state[x]]

\* The states a tool is applied to: the logged-in state with any of the keys
\* the tools read removed, the console state, the state before login.
ToolStates ==
    { Without(LoggedInState, keys) :
        keys \in SUBSET {"bearer_token", "merchant_id", "branch_id", "user_id"} }
    \cup {ConsoleState, initial_state("ru")}

\* The agent runtime calls the tool function with its tool_context.
CallTool(tool) ==
    /\ toolOut = None
    /\ \E args \in AllArgsOf[tool], http \in HttpOutcomesOf(tool) :
         LET r == RunTool(tool, toolCtx, args, http) IN
         /\ toolOut' = [tool |-> tool, args |-> args, http |-> http,
                        before |-> toolCtx, raised |-> r.raised, ret |-> r.ret,
                        request |-> r.request]
         /\ toolCtx' = r.state
    /\ UNCHANGED <<botVars, console>>

\* The runtime takes the result (or the exception).
TakeResult ==
    /\ toolOut # None
    /\ toolOut' = None
    /\ UNCHANGED <<toolCtx, botVars, console>>

InitTools ==
    /\ toolCtx \in ToolStates
    /\ toolOut = None
    /\ sessions = <<>>
    /\ prompted = {}
    /\ pc = [u \in Users |-> "idle"]
    /\ turn = [u \in Users |-> None]
    /\ out = Did("none", "", None, <<>>, <<>>, <<>>, None)
    /\ console = None

NextTools ==
    \/ \E tool \in ToolNames : CallTool(tool)
    \/ TakeResult

SpecTools == InitTools /\ [][NextTools]_vars

(***************************************************************************)
(* SpecConsole: src/console.py                                             *)
(***************************************************************************)
MaxLines == 4       \* most lines read from the terminal

USER_ID == "user_007"

SESSION_ID == "session_007"

\* Lines the user can type, as character sequences.
ConsoleLines ==
    { <<"h", "i">>, <<"e", "x", "i">>, <<"e", "x", "i", "t", "s">>, <<"t", "e", "x", "t">>,
      <<"e", "x", "i", "t">>, <<"n", "o", " ", "e", "x", "i", "t", "!">> }

ExitWord == <<"e", "x", "i", "t">>

\* Mutant of Contains: the line has to be the word.
Contains_whole_line(line, word) == line = word

\* word in line
Contains(line, word) ==
    \E i \in 1..(Len(line) - Len(word) + 1) : SubSeq(line, i, i + Len(word) - 1) = word

\* f"Introduce yourself and contunue in language: {initial_state['user_language']}"
IntroPrompt == <<"Introduce yourself and contunue in language: ", ConsoleState["user_language"]>>

\* await call_agent_async(query=prompt, ...): the turn is sent; the call
\* returns, or an exception leaves it, the loop and run_team_conversation, and
\* is printed by the except clause under __main__.
console_turn ==
    /\ console # None
    /\ console.pc = "call"
    /\ \E raises \in BOOLEAN :
         console' = [console EXCEPT
                        !.turns = Append(@, [user_id |-> USER_ID,
                                             session_id |-> SESSION_ID,
                                             query |-> console.prompt]),
                        !.pc = IF raises THEN "ended" ELSE "input",
                        !.printed = IF raises THEN "An error occurred" ELSE @]
    /\ UNCHANGED <<botVars, toolCtx, toolOut>>

\* prompt = input(">>> "); if "exit" in prompt: break
console_input ==
    /\ console # None
    /\ console.pc = "input"
    /\ Len(console.lines) < MaxLines
    /\ \E line \in ConsoleLines :
         console' = [console EXCEPT
                        !.lines = Append(@, line),
                        !.prompt = line,
                        !.pc = IF Contains(line, ExitWord) THEN "ended" ELSE "call"]
    /\ UNCHANGED <<botVars, toolCtx, toolOut>>

InitConsole ==
    /\ sessions = create_session(<<>>, <<APP_NAME, USER_ID, SESSION_ID>>, ConsoleState)
    /\ console = [pc |-> "call", prompt |-> IntroPrompt, turns |-> <<>>,
                  lines |-> <<>>, printed |-> ""]
    /\ prompted = {}
    /\ pc = [u \in Users |-> "idle"]
    /\ turn = [u \in Users |-> None]
    /\ out = Did("none", "", None, <<>>, <<>>, <<>>, None)
    /\ toolCtx = None
    /\ toolOut = None

NextConsole == console_turn \/ console_input

SpecConsole == InitConsole /\ [][NextConsole]_vars

(***************************************************************************)
(* SpecUsers: two users of the chat bot, each with an account and a        *)
(* language of their own                                                   *)
(***************************************************************************)
TwoUsers == {"u1", "u2"}

\* The account a user's credentials belong to.
AccountOf(u) == IF u = "u1" THEN 1 ELSE 2

\* The button a user presses on the language keyboard.
LanguageOf(u) == IF u = "u1" THEN "uz" ELSE "ru"

\* The messages the two users send: a question and a pair of credentials.
UsersTexts == { <<"a">>, <<"a", " ", "b", "b">> }

\* The tools the agent calls for them.
UsersTools == {"refresh_token", "get_payment_types", "get_flowers"}

InitUsers ==
    /\ sessions = <<>>
    /\ prompted = {}
    /\ pc = [u \in TwoUsers |-> "idle"]
    /\ turn = [u \in TwoUsers |-> None]
    /\ out = Did("none", "", None, <<>>, <<>>, <<>>, None)
    /\ toolCtx = None
    /\ toolOut = None
    /\ console = None

\* The handlers of the bot for either user; a login is refused or answered
\* with the user's own account.
NextUsers ==
    \E u \in TwoUsers :
        \/ command_start_handler(u)
        \/ process_language_selection(u) /\ out'.input[2] = LanguageOf(u)
        \/ /\ all_messages_handler(u)
           /\ out'.input \in UsersTexts
           /\ out'.login_calls # <<>> =>
                  \/ out'.login_calls[1].response.raised = "HTTPError"
                  \/ /\ out'.login_calls[1].response.raised = ""
                     /\ out'.login_calls[1].response.value.user_id
                            = AccountData(AccountOf(u)).userId
                     /\ out'.login_calls[1].response.value.branch_id
                            = AccountData(AccountOf(u)).branchId
                     /\ out'.login_calls[1].response.value.refresh_token # NoneStr
        \/ call_agent_async(u)
        \/ tool_call(u) /\ out'.tool.name \in UsersTools
        \/ agent_reply(u)

SpecUsers == InitUsers /\ [][NextUsers]_vars

(***************************************************************************)
(* SpecCallbacks: callback queries whose data is not that of a button      *)
(***************************************************************************)
\* Callback data a client can send, as data.split('_') lists: the three
\* buttons, "lang_fr", "lang_", "lang_uz_x" and "other_uz".
ClientCallbackData ==
    CallbackData \cup { <<"lang", "fr">>, <<"lang", "">>, <<"lang", "uz", "x">>,
                        <<"other", "uz">> }

\* /start, callback queries and text messages of one user, up to the loading
\* message.
NextCallbacks ==
    \E u \in Users :
        \/ command_start_handler(u)
        \/ \E data \in ClientCallbackData : process_language_selection_on(u, data)
        \/ all_messages_handler(u)

SpecCallbacks == Init /\ [][NextCallbacks]_vars

(***************************************************************************)
(* Properties                                                              *)
(***************************************************************************)
\* The lifecycle state of u's session, read off the store and the chat.
LifecycleOf(store, keyboards, u) ==
    LET k == SessionKey(u) IN
    IF k \notin DOMAIN store
    THEN IF u \in keyboards THEN "AWAITING_LANGUAGE" ELSE "NEW"
    ELSE IF "awaiting_credentials" \in DOMAIN store[k].state
            /\ store[k].state["awaiting_credentials"]
         THEN "AWAITING_CREDENTIALS"
         ELSE IF "bearer_token" \in DOMAIN store[k].state
                 /\ "user_language" \in DOMAIN store[k].state
              THEN "AUTHENTICATED"
              ELSE "OTHER"

Lifecycle(u) == LifecycleOf(sessions, prompted, u)

ListedTransitions ==
    { <<"NEW", "AWAITING_LANGUAGE">>,
      <<"AWAITING_LANGUAGE", "AWAITING_CREDENTIALS">>,
      <<"AWAITING_CREDENTIALS", "AUTHENTICATED">> }

\* The tokens of a text, without split: a token starts at a non-space
\* character that is first or follows a space, and runs to the next space.
TokenStarts(text) ==
    { i \in 1..Len(text) : text[i] # " " /\ (i = 1 \/ text[i - 1] = " ") }

TokenFrom(text, i) ==
    LET end == CHOOSE j \in i..Len(text) :
                   /\ \A m \in i..j : text[m] # " "
                   /\ (j = Len(text) \/ text[j + 1] = " ")
    IN  SubSeq(text, i, end)

IsTwoTokens(text) == Cardinality(TokenStarts(text)) = 2

FirstToken(text) ==
    TokenFrom(text, CHOOSE i \in TokenStarts(text) : \A j \in TokenStarts(text) : i <= j)

LastToken(text) ==
    TokenFrom(text, CHOOSE i \in TokenStarts(text) : \A j \in TokenStarts(text) : i >= j)

\* u's session is awaiting credentials and no handler of u is in flight.
AwaitsCredentials(u) ==
    /\ SessionKey(u) \in DOMAIN sessions
    /\ HasLanguage(sessions[SessionKey(u)])
    /\ sessions[SessionKey(u)].state["awaiting_credentials"]
    /\ pc[u] = "idle"

\* The step is all_messages_handler receiving a text message of u.
TextStep(u) ==
    /\ pc[u] = "idle"
    /\ out'.handler = "all_messages_handler"
    /\ out'.user = u

\* C1 as stated: the lifecycle state of a session changes only along
\* NEW -> AWAITING_LANGUAGE -> AWAITING_CREDENTIALS -> AUTHENTICATED; in
\* particular no step moves an AUTHENTICATED session to an earlier state.
C1_OnlyListedTransitions ==
    [][\A u \in Users :
          Lifecycle(u)' # Lifecycle(u)
              => <<Lifecycle(u), Lifecycle(u)'>> \in ListedTransitions]_vars

\* C1 amended: the lifecycle state changes only along the listed transitions,
\* each made by its own handler (/start, language selection, a credential
\* message whose login succeeds), and along one more: a language selection
\* moves an AUTHENTICATED session back to AWAITING_CREDENTIALS.
C1_Transitions ==
    [][\A u \in Users :
          LET from == Lifecycle(u)
              to == Lifecycle(u)'
          IN  from # to =>
                /\ out'.user = u
                /\ \/ /\ <<from, to>> = <<"NEW", "AWAITING_LANGUAGE">>
                      /\ out'.handler = "command_start_handler"
                   \/ /\ <<from, to>> \in { <<"AWAITING_LANGUAGE", "AWAITING_CREDENTIALS">>,
                                            <<"AUTHENTICATED", "AWAITING_CREDENTIALS">> }
                      /\ out'.handler = "process_language_selection"
                   \/ /\ <<from, to>> = <<"AWAITING_CREDENTIALS", "AUTHENTICATED">>
                      /\ out'.handler = "all_messages_handler"
                      /\ Len(out'.login_calls) = 1
                      /\ out'.login_calls[1].response.raised = ""]_vars

\* A language selection has just moved a session that was authenticated (its
\* message is still waiting for the agent) back to awaiting credentials.
C1_Witness ==
    \E u \in Users :
        /\ out.handler = "process_language_selection"
        /\ out.user = u
        /\ pc[u] = "loading"
        /\ Lifecycle(u) = "AWAITING_CREDENTIALS"

\* C2: right after process_language_selection the user has exactly one
\* session, and its state is exactly the chosen language code and
\* awaiting_credentials = true, with no event and no other field.
C2_FreshSessionAfterLanguageSelection ==
    out.handler = "process_language_selection" =>
        /\ { k \in DOMAIN sessions : k[2] = out.user } = { SessionKey(out.user) }
        /\ sessions[SessionKey(out.user)] =
               [state |-> [user_language |-> out.input[2],
                           awaiting_credentials |-> TRUE],
                events |-> <<>>]

\* A language selection has replaced the session of a user whose agent turn,
\* started when the session held the tokens of a login, is still running.
C2_Witness ==
    \E u \in Users :
        /\ out.handler = "process_language_selection"
        /\ out.user = u
        /\ pc[u] = "agent"
        /\ "bearer_token" \in DOMAIN turn[u].state
        /\ DOMAIN sessions[SessionKey(u)].state = {"user_language", "awaiting_credentials"}

\* C3: a two-token message to a session awaiting credentials makes exactly
\* one login call, with the first token as login and the second as password;
\* if the login succeeds the state has awaiting_credentials = false, the
\* language it had, and the identifiers and tokens of that login response.
C3_LoginWithCredentials ==
    [][\A u \in Users :
          (AwaitsCredentials(u) /\ TextStep(u) /\ IsTwoTokens(out'.input)) =>
             /\ Len(out'.login_calls) = 1
             /\ out'.login_calls[1].username = FirstToken(out'.input)
             /\ out'.login_calls[1].password = LastToken(out'.input)
             /\ LET response == out'.login_calls[1].response
                    before == sessions[SessionKey(u)].state
                    after == sessions'[SessionKey(u)].state
                IN  response.raised = "" =>
                      /\ after["awaiting_credentials"] = FALSE
                      /\ after["user_language"] = before["user_language"]
                      /\ \A key \in {"user_id", "merchant_id", "branch_id",
                                     "bearer_token", "refresh_token"} :
                             after[key] = response.value[key]]_vars

\* A login with two different tokens has succeeded and its response, here
\* with the branch taken from the merchant's branch list, is in the state.
C3_Witness ==
    \E u \in Users :
        /\ out.handler = "all_messages_handler"
        /\ out.user = u
        /\ Len(out.login_calls) = 1
        /\ out.login_calls[1].username # out.login_calls[1].password
        /\ out.login_calls[1].response.raised = ""
        /\ sessions[SessionKey(u)].state["branch_id"] = "fb2"
        /\ sessions[SessionKey(u)].state["merchant_id"] = "m2"

C5_FailedLoginChangesNothing ==
    [][\A u \in Users :
          (/\ AwaitsCredentials(u)
           /\ TextStep(u)
           /\ out'.login_calls # <<>>
           /\ out'.login_calls[1].response.raised # "") =>
             /\ sessions' = sessions
             /\ pc' = pc
             /\ LET raised == out'.login_calls[1].response.raised
                    lang == sessions[SessionKey(u)].state["user_language"]
                IN  out'.replies =
                        << IF raised = "HTTPError"
                           THEN Reply("login_invalid", lang, "")
                           ELSE Reply("login_error", lang, raised) >>]_vars

\* A login has failed with something other than an HTTP error in a session
\* whose language is not English.
C5_Witness ==
    /\ out.handler = "all_messages_handler"
    /\ out.login_calls # <<>>
    /\ out.login_calls[1].response.raised \in {"KeyError", "IndexError", "ConnectionError"}
    /\ out.replies[1].kind = "login_error"
    /\ out.replies[1].lang = "uz"
    /\ Lifecycle(out.user) = "AWAITING_CREDENTIALS"

\* C6: a text message from a user without a session, or whose session has no
\* or an empty user_language, is answered with the prompt to restart and
\* makes no login call, no agent call and no change to any session.
C6_MessageBeforeLanguage ==
    [][\A u \in Users :
          (~HasLanguage(get_session(sessions, SessionKey(u))) /\ TextStep(u)) =>
             /\ out'.replies = <<Reply("select_language_first", "en", "")>>
             /\ out'.login_calls = <<>>
             /\ out'.agent_calls = <<>>
             /\ sessions' = sessions
             /\ pc' = pc /\ turn' = turn]_vars

\* A message sent after /start but before any language was chosen has been
\* rejected.
C6_Witness ==
    /\ out.handler = "all_messages_handler"
    /\ out.replies = <<Reply("select_language_first", "en", "")>>
    /\ out.user \in prompted
    /\ SessionKey(out.user) \notin DOMAIN sessions

\* C7 as stated: while bearer_token is absent from a session's state no
\* message of that session is forwarded to the agent runtime and no tool
\* issues a request carrying an Authorization header.
C7_NoToolCallWithoutToken ==
    \A u \in Users :
        (\/ SessionKey(u) \notin DOMAIN sessions
         \/ "bearer_token" \notin DOMAIN sessions[SessionKey(u)].state) =>
            ~ /\ out.user = u
              /\ \/ out.handler = "call_agent_async"
                 \/ /\ out.handler = "tool_call"
                    /\ out.tool.sent
                    /\ out.tool.headers # None

\* C8 as stated: a tool function returns a value and never raises, for every
\* state, argument list and HTTP outcome.
C8_ToolsNeverRaise ==
    toolOut # None => toolOut.raised = None

FailedKinds == {"status_401", "status_500", "timeout", "conn_error"}

\* C9 as stated: when the HTTP request of a tool fails (non-2xx, timeout,
\* connection failure) the tool returns a record of exactly the two fields
\* status = "error" and error_message, whichever tool it is.
C9_UniformErrorRecord ==
    (toolOut # None /\ toolOut.request # None /\ toolOut.http.kind \in FailedKinds) =>
        /\ toolOut.raised = None
        /\ DOMAIN toolOut.ret = {"status", "error_message"}
        /\ toolOut.ret.status = "error"

DeleteTools == {"delete_flower_type", "delete_bouquet_type", "delete_consumable_type"}

\* C10 as stated: when the HTTP request of a tool succeeds with a decodable
\* body the tool returns that body unchanged, whichever tool it is.
C10_BodyReturnedVerbatim ==
    (toolOut # None /\ toolOut.request # None /\ toolOut.http.kind = "ok") =>
        toolOut.ret = toolOut.http.body

\* C10 amended: when the HTTP request of a tool succeeds with a decodable
\* body the tool returns that body unchanged, except the three delete_*_type
\* tools, which return a fixed success record, and refresh_token, which
\* returns None once it has stored the tokens (an error record when the body
\* has no data.token).
C10_BodyReturnedExceptDeleteAndRefresh ==
    (toolOut # None /\ toolOut.request # None /\ toolOut.http.kind = "ok") =>
        /\ toolOut.raised = None
        /\ toolOut.tool \notin DeleteTools \cup {"refresh_token"} =>
               toolOut.ret = toolOut.http.body
        /\ toolOut.tool \in DeleteTools =>
               /\ DOMAIN toolOut.ret = {"status", "message"}
               /\ toolOut.ret.status = "success"
        /\ toolOut.tool = "refresh_token" =>
               IF "data" \in DOMAIN toolOut.http.body
                  /\ "token" \in DOMAIN toolOut.http.body.data
               THEN toolOut.ret = None
               ELSE toolOut.ret.status = "error"

\* get_flowers has returned the decoded body of a 2xx response.
C10_Witness ==
    /\ toolOut # None
    /\ toolOut.tool = "get_flowers"
    /\ toolOut.http.kind = "ok"
    /\ toolOut.request # None
    /\ toolOut.ret = BodyItem

LoginDeltaKeys ==
    {"user_language", "awaiting_credentials", "user_id", "merchant_id",
     "branch_id", "bearer_token", "refresh_token"}

RefreshDeltaKeys == {"refresh_token", "bearer_token"}

\* The keys named by the state delta that the step applies to a session.
DeltaKeysOfStep ==
    IF /\ out'.handler = "all_messages_handler"
       /\ out'.login_calls # <<>>
       /\ out'.login_calls[1].response.raised = ""
    THEN LoginDeltaKeys
    ELSE IF out'.handler = "tool_call" /\ out'.tool.name = "refresh_token"
    THEN RefreshDeltaKeys
    ELSE {}

\* C11: a state delta applied to a stored session (the login event, the
\* update made by refresh_token) keeps every field the session had, with its
\* old value unless the delta names the key, and adds no key but those the
\* delta names.
C11_MergeKeepsOtherFields ==
    [][\A k \in DOMAIN sessions \cap DOMAIN sessions' :
          out'.handler # "process_language_selection" =>
             LET old == sessions[k].state
                 new == sessions'[k].state
             IN  /\ DOMAIN old \subseteq DOMAIN new
                 /\ DOMAIN new \subseteq DOMAIN old \cup DeltaKeysOfStep
                 /\ \A key \in DOMAIN old \ DeltaKeysOfStep :
                        new[key] = old[key]]_vars

\* refresh_token has put a new token into a logged-in session, whose
\* identifiers and language are those of the login.
C11_Witness ==
    \E u \in Users :
        /\ out.handler = "tool_call"
        /\ out.user = u
        /\ out.tool.name = "refresh_token"
        /\ sessions[SessionKey(u)].state["bearer_token"] = "tokR"
        /\ sessions[SessionKey(u)].state["user_id"] = "uid2"
        /\ sessions[SessionKey(u)].state["user_language"] = "uz"
        /\ sessions[SessionKey(u)].state["awaiting_credentials"] = FALSE

\* The lifecycle state of a session whose state is the tool context.
ToolCtxLifecycle(state) ==
    LifecycleOf(SessionKey("u1") :> [state |-> state, events |-> <<>>], {}, "u1")

\* The response of a refresh carries a new token.
RefreshSucceeds(http) ==
    /\ http.kind = "ok"
    /\ "data" \in DOMAIN http.body
    /\ "token" \in DOMAIN http.body.data

\* C12: after a successful refresh_token call the state is the old one with
\* bearer_token and refresh_token replaced by those of the response, every
\* other field and the lifecycle state AUTHENTICATED being as before; after a
\* failed one (HTTP error, undecodable body, no token in the body) the state
\* is the old one.
C12_RefreshTouchesOnlyTokens ==
    (toolOut # None /\ toolOut.tool = "refresh_token") =>
        IF RefreshSucceeds(toolOut.http)
        THEN /\ DOMAIN toolCtx = DOMAIN toolOut.before \cup RefreshDeltaKeys
             /\ toolCtx["bearer_token"] = toolOut.http.body.data.token
             /\ toolCtx["refresh_token"] = toolOut.http.cookie
             /\ \A key \in DOMAIN toolOut.before \ RefreshDeltaKeys :
                    toolCtx[key] = toolOut.before[key]
             /\ ToolCtxLifecycle(toolOut.before) = "AUTHENTICATED"
                    => ToolCtxLifecycle(toolCtx) = "AUTHENTICATED"
        ELSE toolCtx = toolOut.before

\* A refresh has replaced both tokens of a logged-in session.
C12_Witness ==
    /\ toolOut # None
    /\ toolOut.tool = "refresh_token"
    /\ toolOut.before = LoggedInState
    /\ ToolCtxLifecycle(toolCtx) = "AUTHENTICATED"
    /\ toolCtx["bearer_token"] = "tokR"
    /\ toolCtx["refresh_token"] = "refR"
    /\ toolCtx["user_id"] = "uid1"

\* The call is made on the logged-in state without its bearer_token, with
\* arguments the tool does not reject.
CalledWithoutToken ==
    /\ toolOut # None
    /\ toolOut.before = Without(LoggedInState, {"bearer_token"})
    /\ toolOut.tool = "get_orders_by_status"
           => Upper(toolOut.args.status) \in OrderStatuses

\* C13 as stated: a tool called with a state that lacks bearer_token does not
\* fail before its request; it returns after issuing the HTTP request,
\* whichever tool it is, the order tools included.
C13_ProceedsWithoutToken ==
    CalledWithoutToken => toolOut.raised = None /\ toolOut.request # None

ListTools ==
    {"get_flowers", "get_bouquets", "get_consumables", "get_all_measurement_types",
     "search_feed", "get_orders_by_status"}

\* A list/query tool was called with none of its optional arguments and has
\* sent its request.
CalledWithoutOptionals ==
    /\ toolOut # None
    /\ toolOut.tool \in ListTools
    /\ toolOut.request # None
    /\ DOMAIN toolOut.args =
           IF toolOut.tool = "get_orders_by_status" THEN {"status"} ELSE {}

\* The query parameters the tool cannot do without.
RequiredParams(tool, state, args) ==
    CASE tool \in {"get_flowers", "get_bouquets", "get_consumables"} ->
           [merchant_id |-> state["merchant_id"], branch_id |-> state["branch_id"]]
      [] tool = "get_orders_by_status" ->
           [transactionStatus |-> Upper(args.status)]
      [] tool = "search_feed" ->
           IF "merchant_id" \in DOMAIN state
           THEN [merchant_id |-> state["merchant_id"]] ELSE <<>>
      [] OTHER -> <<>>

\* The optional parameters that are sent with a default value.
DefaultParams(tool, state) ==
    CASE tool \in {"get_flowers", "get_bouquets", "get_consumables"} ->
           [sort |-> "updatedAt-desc"]
      [] tool = "get_orders_by_status" -> [page |-> "1", limit |-> "20"]
      [] tool = "search_feed" ->
           [page |-> "1", limit |-> "20",
            lang |-> IF "user_language" \in DOMAIN state
                     THEN state["user_language"] ELSE "ru"]
      [] OTHER -> <<>>

\* C14 as stated: a list/query tool called with none of its optional
\* arguments sends only the required query parameters; no optional parameter
\* (search, filters, lang, page, limit, sort, ...) is in the request.
C14_OnlyRequiredParams ==
    CalledWithoutOptionals =>
        DOMAIN toolOut.request.params \subseteq
            DOMAIN RequiredParams(toolOut.tool, toolOut.before, toolOut.args)

\* C14 amended: a list/query tool called with none of its optional arguments
\* sends the required query parameters and, with their default values, sort
\* (get_flowers, get_bouquets, get_consumables), page and limit
\* (get_orders_by_status, search_feed) and lang (search_feed); no other
\* optional parameter is in the request and none is sent as None or empty.
C14_RequiredAndDefaultParams ==
    CalledWithoutOptionals =>
        /\ toolOut.request.params =
               RequiredParams(toolOut.tool, toolOut.before, toolOut.args)
               @@ DefaultParams(toolOut.tool, toolOut.before)
        /\ \A key \in DOMAIN toolOut.request.params :
               toolOut.request.params[key] \notin {NoneStr, ""}

\* get_orders_by_status was called with a status only and has asked for the
\* first page of twenty.
C14_Witness ==
    /\ CalledWithoutOptionals
    /\ toolOut.tool = "get_orders_by_status"
    /\ toolOut.request.params =
           [page |-> "1", limit |-> "20", transactionStatus |-> "PENDING"]

\* C15: /start sends exactly one reply, the return greeting in the session's
\* language when the user's session exists with a non-empty user_language and
\* the language prompt otherwise, and leaves the session store as it was: no
\* session created, no session state changed.
C15_StartOnlyReplies ==
    [][\A u \in Users :
          (out'.handler = "command_start_handler" /\ out'.user = u) =>
             /\ sessions' = sessions
             /\ pc' = pc /\ turn' = turn
             /\ out'.login_calls = <<>> /\ out'.agent_calls = <<>>
             /\ out'.replies =
                    IF /\ SessionKey(u) \in DOMAIN sessions
                       /\ "user_language" \in DOMAIN sessions[SessionKey(u)].state
                       /\ sessions[SessionKey(u)].state["user_language"] # ""
                    THEN <<Reply("greeting",
                                 sessions[SessionKey(u)].state["user_language"], "")>>
                    ELSE <<Reply("choose_language", "en", "")>>]_vars

\* /start has greeted a logged-in user in Russian.
C15_Witness ==
    /\ out.handler = "command_start_handler"
    /\ out.replies = <<Reply("greeting", "ru", "")>>
    /\ Lifecycle(out.user) = "AUTHENTICATED"

\* C16 as stated: a text message received in the AUTHENTICATED state,
\* whatever its text, is answered with one loading message and nothing else;
\* its text is then forwarded to the agent runtime exactly once, for the
\* user's session; the loading message is edited only after the agent call,
\* and every loading message is eventually edited.
C16_LoadingForwardedAndEdited ==
    /\ [][\A u \in Users :
            /\ (Lifecycle(u) = "AUTHENTICATED" /\ TextStep(u)) =>
                   /\ out'.replies = <<Reply("loading", "en", "")>>
                   /\ out'.login_calls = <<>> /\ out'.agent_calls = <<>>
                   /\ pc'[u] = "loading"
                   /\ turn'[u] = [query |-> out'.input]
                   /\ sessions' = sessions
            /\ (pc[u] = "loading" /\ pc'[u] # "loading") =>
                   /\ pc'[u] = "agent"
                   /\ out'.agent_calls =
                          << [user_id |-> u, session_id |-> session_id(u),
                              query |-> turn[u].query] >>
            /\ (pc[u] = "agent" /\ pc'[u] = "agent") => out'.agent_calls = <<>>
            /\ (out'.handler = "edit_message_text" /\ out'.user = u) =>
                   pc[u] = "agent" /\ pc'[u] = "idle"]_vars
    /\ \A u \in Users :
           (pc[u] = "loading") ~>
               (out.handler = "edit_message_text" /\ out.user = u)

\* The lines read so far that do not end the loop, as the turns they make.
RECURSIVE TurnsOf(_)
TurnsOf(lines) ==
    IF lines = <<>> THEN <<>>
    ELSE LET line == lines[1]
             has_exit == \E i \in 1..Len(line) - 3 :
                             /\ line[i] = "e" /\ line[i + 1] = "x"
                             /\ line[i + 2] = "i" /\ line[i + 3] = "t"
         IN  IF has_exit THEN <<>>
             ELSE <<[user_id |-> USER_ID, session_id |-> SESSION_ID, query |-> line]>>
                  \o TurnsOf(Tail(lines))

\* C17: the console loop sends the introduction and then every line read, in
\* input order, each as one turn of the console session; a line containing
\* "exit" ends the loop and is not sent, nor is anything after it.
C17_ConsoleForwardsUntilExit ==
    LET intro == [user_id |-> USER_ID, session_id |-> SESSION_ID, query |-> IntroPrompt]
        due == <<intro>> \o TurnsOf(console.lines)
        ended_by_exit == console.pc = "ended" /\ console.printed = ""
    IN  /\ console.pc = "call" =>
               due = Append(console.turns,
                            [user_id |-> USER_ID, session_id |-> SESSION_ID,
                             query |-> console.prompt])
        /\ console.pc # "call" => console.turns = due
        /\ ended_by_exit <=>
               /\ console.lines # <<>>
               /\ Len(TurnsOf(console.lines)) = Len(console.lines) - 1
        /\ console.pc # "ended" => Len(TurnsOf(console.lines)) = Len(console.lines)

\* Two lines were sent after the introduction and a third, which has "exit"
\* inside a longer text, has ended the loop.
C17_Witness ==
    /\ console.pc = "ended"
    /\ console.printed = ""
    /\ Len(console.turns) = 3
    /\ console.lines[3] = <<"n", "o", " ", "e", "x", "i", "t", "!">>
    /\ console.turns[3].query = <<"t", "e", "x", "t">>

\* C18 as stated: an exception raised while a turn is handled is caught and
\* shown as text and the front end goes on to accept the next input; no
\* failure of one turn ends the console loop, which ends only when a line
\* containing "exit" is read.
C18_FailureDoesNotEndLoop ==
    console.pc = "ended" =>
        /\ console.lines # <<>>
        /\ Contains(console.lines[Len(console.lines)], ExitWord)

\* The valid status a text differs from in letter case only, "" if none.
StatusIgnoringCase(text) ==
    CASE text \in {"PENDING", "pending"} -> "PENDING"
      [] text \in {"REFUND", "Refund"} -> "REFUND"
      [] text \in {"FAILED", "CANCELED", "SUCCESSFUL"} -> text
      [] OTHER -> ""

\* C19: get_orders_by_status called with a status that is no valid status in
\* any letter case returns an error record, sends no request and leaves the
\* session state as it was; called with a valid status in any letter case (in
\* a state that has a bearer_token) it sends the request with the status in
\* upper case.
C19_OrderStatusValidated ==
    (toolOut # None /\ toolOut.tool = "get_orders_by_status") =>
        LET wanted == StatusIgnoringCase(toolOut.args.status) IN
        IF wanted = ""
        THEN /\ toolOut.raised = None
             /\ DOMAIN toolOut.ret = {"status", "error_message"}
             /\ toolOut.ret.status = "error"
             /\ toolOut.request = None
             /\ toolCtx = toolOut.before
        ELSE "bearer_token" \in DOMAIN toolOut.before =>
                 /\ toolOut.request # None
                 /\ toolOut.request.params["transactionStatus"] = wanted
                 /\ toolCtx = toolOut.before

\* The status "shipped" has been rejected although the backend would have
\* answered.
C19_Witness ==
    /\ toolOut # None
    /\ toolOut.tool = "get_orders_by_status"
    /\ toolOut.args.status = "shipped"
    /\ toolOut.before = LoggedInState
    /\ toolOut.http.kind = "ok"
    /\ toolOut.ret.status = "error"
    /\ toolOut.request = None

\* C20 as stated: the handlers of one user run one after the other; between
\* the session read of a text-message handler and its last use of the session
\* (the agent call and its tools) no other handler of that user reads or
\* writes the session.
C20_HandlersOfOneUserSequential ==
    [][\A u \in Users :
          pc[u] # "idle" =>
              ~ /\ out'.user = u
                /\ out'.handler \in {"command_start_handler",
                                     "process_language_selection",
                                     "all_messages_handler"}]_vars

\* s is a prefix of t.
IsPrefix(s, t) == Len(s) <= Len(t) /\ SubSeq(t, 1, Len(s)) = s

\* The step merges into the stored record of k: the record stays, no field
\* and no event of it is dropped.
MergedInto(k) ==
    /\ k \in DOMAIN sessions'
    /\ DOMAIN sessions[k].state \subseteq DOMAIN sessions'[k].state
    /\ IsPrefix(sessions[k].events, sessions'[k].events)

\* C21 as stated: every step that changes the session store merges a state
\* delta into the existing session record; no step, language selection
\* included, replaces a stored record.
C21_StoreOnlyMerged ==
    [][\A k \in DOMAIN sessions :
          sessions'[k] # sessions[k] => MergedInto(k)]_vars

\* C21 amended: login and token refresh merge a state delta into the existing
\* session record (the login also appends its event); language selection
\* does not merge: it deletes the stored record and creates a fresh one that
\* holds only the chosen language and awaiting_credentials = true.
C21_MergedExceptLanguageSelection ==
    [][\A k \in DOMAIN sessions :
          /\ k \in DOMAIN sessions'
          /\ sessions'[k] # sessions[k] =>
               IF out'.handler = "process_language_selection"
               THEN /\ DOMAIN sessions'[k].state = {"user_language", "awaiting_credentials"}
                    /\ sessions'[k].events = <<>>
               ELSE /\ MergedInto(k)
                    /\ DeltaKeysOfStep # {}
                    /\ DeltaKeysOfStep = LoginDeltaKeys =>
                           Len(sessions'[k].events) = Len(sessions[k].events) + 1]_vars

\* A login, answered without a refreshToken cookie, has been merged into the
\* record that language selection created, which now holds one login event.
C21_Witness ==
    \E u \in Users :
        /\ out.handler = "all_messages_handler"
        /\ out.user = u
        /\ out.login_calls # <<>>
        /\ out.login_calls[1].response.raised = ""
        /\ Len(sessions[SessionKey(u)].events) = 1
        /\ sessions[SessionKey(u)].state["user_language"] = "en"
        /\ sessions[SessionKey(u)].state["refresh_token"] = NoneStr

\* C22: the session store changes only in a language selection, in a text
\* message whose login succeeds and in a refresh_token call; /start, every
\* other text message and every other tool call leave all sessions as they
\* were, and a tool other than refresh_token also leaves the state of the
\* running turn as it was.
C22_OnlyThreeFlowsChangeState ==
    [][/\ sessions' # sessions =>
            \/ out'.handler = "process_language_selection"
            \/ /\ out'.handler = "all_messages_handler"
               /\ out'.login_calls # <<>>
               /\ out'.login_calls[1].response.raised = ""
            \/ /\ out'.handler = "tool_call"
               /\ out'.tool.name = "refresh_token"
               /\ ~out'.tool.raised
       /\ \A u \in Users :
            (/\ out'.handler = "tool_call" /\ out'.user = u
             /\ out'.tool.name # "refresh_token"
             /\ pc'[u] = "agent") =>
                turn'[u].state = turn[u].state]_vars

\* create_order has sent its request for a logged-in user whose session is
\* that of the login.
C22_Witness ==
    \E u \in Users :
        /\ out.handler = "tool_call"
        /\ out.user = u
        /\ out.tool.name = "create_order"
        /\ out.tool.sent
        /\ pc[u] = "agent"
        /\ sessions[SessionKey(u)].state = turn[u].state
        /\ sessions[SessionKey(u)].state["bearer_token"] = "tok1"

\* C23: a step made for one user, whichever handler or tool it is, leaves the
\* stored session of every other user as it was, present or absent; the
\* session keys of two users differ.
C23_OtherUsersUntouched ==
    [][\A u \in TwoUsers : \A v \in TwoUsers \ {u} :
          /\ SessionKey(u) # SessionKey(v)
          /\ out'.user = u =>
                /\ SessionKey(v) \in DOMAIN sessions' <=> SessionKey(v) \in DOMAIN sessions
                /\ SessionKey(v) \in DOMAIN sessions =>
                       sessions'[SessionKey(v)] = sessions[SessionKey(v)]
                /\ pc'[v] = pc[v] /\ turn'[v] = turn[v]]_vars

\* Both users are logged in, each with their own account and language, and
\* the second has just refreshed their token while the first has not.
C23_Witness ==
    /\ out.handler = "tool_call"
    /\ out.user = "u2"
    /\ out.tool.name = "refresh_token"
    /\ DOMAIN sessions = {SessionKey("u1"), SessionKey("u2")}
    /\ LifecycleOf(sessions, prompted, "u1") = "AUTHENTICATED"
    /\ LifecycleOf(sessions, prompted, "u2") = "AUTHENTICATED"
    /\ sessions[SessionKey("u2")].state["bearer_token"] = "tokR"
    /\ sessions[SessionKey("u2")].state["user_id"] = "uid2"
    /\ sessions[SessionKey("u1")].state["bearer_token"] = "tok1"
    /\ sessions[SessionKey("u1")].state["user_id"] = "uid1"
    /\ sessions[SessionKey("u1")].state["user_language"] = "uz"

\* C24 as stated: whatever callback data the filter of
\* process_language_selection accepts, the user_language of every stored
\* session is one of uz, ru, en.
C24_LanguageIsFixedLocale ==
    \A k \in DOMAIN sessions :
        /\ "user_language" \in DOMAIN sessions[k].state
        /\ sessions[k].state["user_language"] \in {"uz", "ru", "en"}

\* The replies that only credentials_handler sends.
CredentialsReplies ==
    {"credentials_format", "login_success", "login_invalid", "login_error"}

\* The step ran credentials_handler.
RanCredentialsHandler ==
    /\ out'.handler = "all_messages_handler"
    /\ out'.replies # <<>>
    /\ out'.replies[1].kind \in CredentialsReplies

\* C25: a stored session never goes missing, not even between the
\* delete_session and create_session of a language selection, and every run
\* of credentials_handler looks up a session that is in the store (and leaves
\* it there), whatever callbacks, /start commands and conversation turns of
\* the same user run in between.
C25_CredentialsHandlerFindsSession ==
    [][ /\ \A k \in DOMAIN sessions : k \in DOMAIN sessions'
        /\ RanCredentialsHandler =>
             /\ get_session(sessions, SessionKey(out'.user)) # None
             /\ get_session(sessions', SessionKey(out'.user)) # None ]_vars

\* credentials_handler has run on a session that a language selection
\* re-created while a conversation turn of the same user was in flight (the
\* turn's refreshed token reached the new, still awaiting session).
C25_Witness ==
    /\ out.handler = "all_messages_handler"
    /\ out.login_calls # <<>>
    /\ out.replies[1].kind = "login_invalid"
    /\ SessionKey(out.user) \in DOMAIN sessions
    /\ StateGet(sessions[SessionKey(out.user)].state, "awaiting_credentials", FALSE)
    /\ "bearer_token" \in DOMAIN sessions[SessionKey(out.user)].state

IdentityKeys == {"user_id", "merchant_id", "branch_id"}

TokenKeys == {"bearer_token", "refresh_token"}

\* The two tokens are those of one login response of the account.
TokensOfLogin(state, a) ==
    /\ state["bearer_token"] = AccountData(a).token
    /\ state["refresh_token"] \in {AccountData(a).refreshToken, NoneStr}

\* The two tokens are those of one response of /auth/refresh.
TokensOfRefresh(state) ==
    \E http \in HttpOutcomes :
        /\ http.kind = "ok"
        /\ "data" \in DOMAIN http.body
        /\ "token" \in DOMAIN http.body.data
        /\ state["bearer_token"] = http.body.data.token
        /\ state["refresh_token"] = http.cookie

\* The three identifiers are those one login of the account returns.
IdentityOfLogin(state, a) ==
    /\ state["user_id"] = AccountData(a).userId
    /\ state["merchant_id"] = AccountData(a).merchantId
    /\ state["branch_id"] \in {AccountData(a).branchId, AccountData(a).firstBranch}

C27_LoginFirstNeverTaken ==
    /\ \A k \in DOMAIN sessions :
         ( /\ HasLanguage(sessions[k])
           /\ ~StateGet(sessions[k].state, "awaiting_credentials", FALSE) )
             => "bearer_token" \in DOMAIN sessions[k].state
    /\ \A i \in DOMAIN out.replies : out.replies[i].kind # "login_first"

\* all_messages_handler has let a message through to the agent runtime: the
\* session had a language, awaited no credentials and held a bearer_token.
C27_Witness ==
    /\ out.handler = "all_messages_handler"
    /\ out.replies = <<Reply("loading", "en", "")>>
    /\ SessionKey(out.user) \in DOMAIN sessions
    /\ HasLanguage(sessions[SessionKey(out.user)])
    /\ ~StateGet(sessions[SessionKey(out.user)].state, "awaiting_credentials", FALSE)
    /\ "bearer_token" \in DOMAIN sessions[SessionKey(out.user)].state

\* The tools that read tool_context.state.get("lang").
LangTools == {"get_flowers", "get_consumables", "get_all_measurement_types"}

\* The session states of the chat bot that exist in a state: the stored ones
\* and the one each running conversation turn works on.
BotStates ==
    { sessions[k].state : k \in DOMAIN sessions }
    \cup { turn[u].state : u \in { v \in DOMAIN turn : pc[v] = "agent" } }

\* C28: no session state of the chat bot, and not the console's initial
\* state, has the key "lang", and on none of them get_flowers,
\* get_consumables or get_all_measurement_types sends a lang query parameter
\* or leaves a "lang" key behind.
C28_NoLangKey ==
    \A state \in BotStates \cup {ConsoleState} :
        /\ "lang" \notin DOMAIN state
        /\ \A tool \in LangTools :
             \A args \in RequiredArgsOf[tool], http \in HttpOutcomesOf(tool) :
                LET r == RunTool(tool, state, args, http) IN
                /\ "lang" \notin DOMAIN r.state
                /\ r.request # None => "lang" \notin DOMAIN r.request.params

\* get_flowers has sent its request in a turn of a chat whose language is uz.
C28_Witness ==
    /\ out.handler = "tool_call"
    /\ out.tool.name = "get_flowers"
    /\ out.tool.sent
    /\ SessionKey(out.user) \in DOMAIN sessions
    /\ sessions[SessionKey(out.user)].state["user_language"] = "uz"
    /\ "merchant_id" \in DOMAIN sessions[SessionKey(out.user)].state

\* The identifiers a tool reads with tool_context.state[key].
KeysReadBy(tool) ==
    IF tool = "create_order" THEN {"user_id", "merchant_id", "branch_id"}
    ELSE IF tool = "create_supply" THEN {"branch_id"}
    ELSE IF tool \in {"create_flower_master", "create_bouquet_master",
                      "create_consumable_master", "get_flowers", "get_bouquets",
                      "get_consumables"}
    THEN {"merchant_id", "branch_id"}
    ELSE {}

\* The tool was called on a state that lacks an identifier it reads.
CalledWithoutIdentifier ==
    /\ toolOut # None
    /\ ~(KeysReadBy(toolOut.tool) \subseteq DOMAIN toolOut.before)

\* C29: a tool called on a state without one of the identifiers it reads
\* (merchant_id, branch_id, user_id) issues no request and returns the error
\* record of a KeyError; create_order on the console's initial state, which
\* has no user_id, issues no request.
C29_MissingIdentifierNoRequest ==
    /\ CalledWithoutIdentifier =>
         /\ toolOut.request = None
         /\ toolOut.raised = None
         /\ toolOut.ret.status = "error"
         /\ toolOut.ret.error_message[2] = "KeyError"
         /\ toolOut.ret.error_message[3] \in KeysReadBy(toolOut.tool)
    /\ (toolOut # None /\ toolOut.tool = "create_order" /\ toolOut.before = ConsoleState)
         => toolOut.request = None

\* create_order was called on the console's initial state and came back with
\* the error record for user_id.
C29_Witness ==
    /\ toolOut # None
    /\ toolOut.tool = "create_order"
    /\ toolOut.before = ConsoleState
    /\ toolOut.request = None
    /\ toolOut.ret = ErrorRecord("Failed to create order", KeyError("user_id"))

UpdateTools ==
    {"update_flower", "update_flower_type", "update_bouquet", "update_bouquet_type",
     "update_consumable_type"}

\* The parameters of an update tool that default to None; each is sent under
\* its own name.
OptionalFieldsOf(tool) ==
    IF tool = "update_flower" THEN {"price", "sold_separately", "sold_online"}
    ELSE IF tool = "update_flower_type" THEN {"name", "description", "photo_urls"}
    ELSE IF tool = "update_bouquet" THEN {"quantity", "price", "sold_online"}
    ELSE IF tool = "update_bouquet_type"
    THEN {"name", "description", "tags", "photo_urls", "products_spent"}
    ELSE IF tool = "update_consumable_type"
    THEN {"name", "measurement_type_id", "photo_urls"}
    ELSE {}

\* C30 as stated: the JSON body an update tool sends contains an optional
\* field only if the caller supplied a value for it; a field that was not
\* supplied is absent from the body.
C30_OptionalFieldOnlyIfSupplied ==
    (toolOut # None /\ toolOut.tool \in UpdateTools /\ toolOut.request # None)
        => \A field \in OptionalFieldsOf(toolOut.tool) :
               field \in DOMAIN toolOut.request.json => field \in DOMAIN toolOut.args

====
